---- MODULE Spec2Model ----
(***************************************************************************)
(* A model of the real-time coordination layer of cogni_anchor_backend:    *)
(* the ConnectionManager registries (websocket_manager.py), the reminder   *)
(* scheduler (scheduler.py), the tool-calling agent with its bounded       *)
(* conversation history (langgraph_agent.py, api/v1/chatbot/agent.py), the *)
(* agent's tools (chatbot/agent_tools.py), the live-location channel       *)
(* (api/v1/location/location.py), the plain chatbot (app/chatbot.py) and   *)
(* the reminders API (api/v1/reminders/reminders.py).                      *)
(*                                                                         *)
(* Each subsystem has its own specification: SpecRegistry, SpecScheduler,  *)
(* SpecTickClients, SpecAgent, SpecAgentTools, SpecAgentReset,             *)
(* SpecAgentSocket, SpecTransport, SpecTools, SpecLocation,                *)
(* SpecLocationRelay, SpecChat and SpecReminderEvents.  A specification    *)
(* leaves the other subsystems' variables unchanged.                       *)
(***************************************************************************)
EXTENDS Integers, Sequences, FiniteSets, TLC

(***************************************************************************)
(* Bounds of the model.                                                    *)
(***************************************************************************)
\* WebSocket objects that exist during a run (each is accepted at most once).
MaxConns == 2
\* Rows of the reminders table.
MaxReminders == 2
\* Scheduler ticks in a run.
MaxTicks == 2
\* Greatest delay (seconds) between a tick's nominal time and its datetime.now().
MaxJitter == 1
\* Messages the agent receives in a run of conversations, and in a run of
\* tool use; POST /chat requests in flight.
MaxTurns == 2
MaxToolTurns == 1
MaxHttp == 1
\* Calls of the tools in a run of the tools alone.
MaxCalls == 2
\* Messages, and DELETE /history requests per patient, in a run with resets.
MaxResetTurns == 1
MaxClears == 1
\* Websockets of a run of the location channel, and messages they send.
MaxLocConns == 3
MaxUpdates == 2
\* Requests of a run of the plain chatbot.
MaxChats == 4
\* Frames the agent websockets receive in a run.
MaxFrames == 2
\* Turns of the agent websockets in flight at a time.
MaxInFlight == 1
\* Requests of a run of the reminders API.
MaxCrud == 2

Conns == 1 .. MaxConns
\* sender_socket = None
NoConn == 0
\* Channel keys under which clients connect (a pair_id or a patient_id).
Keys == {"p1", "p2"}
\* The four module-level ConnectionManager instances.
Managers == {"location", "audio", "agent", "reminder"}
\* broadcast_json / broadcast_bytes / broadcast_text
Kinds == {"json", "bytes", "text"}
\* The broadcasts the program makes: the location handler relays JSON and the
\* audio handler relays text and bytes, both excluding the handler's own
\* websocket; reminder events are JSON sent with no sender_socket.
CallSites ==
    { [mgr |-> "location", kind |-> "json",  exclude |-> TRUE],
      [mgr |-> "audio",    kind |-> "text",  exclude |-> TRUE],
      [mgr |-> "audio",    kind |-> "bytes", exclude |-> TRUE],
      [mgr |-> "reminder", kind |-> "json",  exclude |-> FALSE] }

VARIABLES
    \* ---- ConnectionManager ----
    active_connections, \* [manager -> [key -> list of websockets]] (a dict per manager)
    accepted,           \* websockets on which accept() has been called
    joined,             \* [websocket -> <<manager, key>> its handler connected it with]
    closed,             \* websockets whose handler has terminated
    bcast,              \* the broadcast coroutine in flight (or the one returning)
    \* ---- database ----
    reminders,          \* the reminders table: rows [id, pair_id, title, date, time]
    pairs,              \* the pairs table: [pair id -> [patient_user_id, caretaker_user_id]]
    users,              \* the users table: [user id -> fcm_token]
    alerts,             \* the emergency_alerts table
    reminder_seq,       \* the last id the reminders table gave out
    \* ---- scheduler ----
    nextRun,            \* nominal time of the next interval run (seconds since Epoch)
    tickNo,             \* interval runs so far
    tick,               \* the check_reminders_job coroutine
    fireCount,          \* [reminder id -> times _process_due_reminder ran for it]
    \* ---- agent ----
    agent_conversations, \* the dict [patient id -> list of [role, content]]
    appended,           \* [patient id -> every entry ever appended, in order]
    http,               \* [request slot -> the POST /chat turn in flight]
    wsTurn,             \* the turn of the agent websocket's receive loop
    turnNo,             \* messages received so far
    lastRun,            \* the last run_agent call: its pair_id and its tool call
    legacy_conversations, \* agent_conversations of the module services/langgraph_agent.py
    clears,             \* [patient id -> DELETE /history requests handled for it]
    toolRun,            \* the last call of a tool: its arguments, clock and reply
    \* ---- location channel ----
    live_location,      \* the live_location table: rows [pair_id, patient_user_id, latitude, longitude]
    received,           \* [websocket -> the messages sent to it, in order]
    loc,                \* [websocket -> its location_websocket coroutine]
    locNo,              \* messages the location handlers have received so far
    \* ---- plain chatbot ----
    conversation_history, \* the dict of app/chatbot.py: [patient id -> list of [role, content]]
    chatLog,            \* the requests the plain chatbot API has served, with their answers
    \* ---- agent websocket ----
    agent_ws,           \* [websocket -> its ws_agent_chat coroutine]
    agent_in,           \* the frames the agent websockets have received, in order
    agent_out,          \* the send_personal_message calls made, in order
    \* ---- reminders API ----
    crud                \* the request of the reminders API in flight, or the last one

registryVars == <<active_connections, accepted, joined, closed, bcast>>
dbVars == <<reminders, pairs, users, alerts, reminder_seq>>
schedVars == <<nextRun, tickNo, tick, fireCount>>
agentVars ==
    <<agent_conversations, appended, http, wsTurn, turnNo, lastRun,
      legacy_conversations, clears>>
toolVars == <<toolRun>>
locVars == <<live_location, received, loc, locNo>>
chatVars == <<conversation_history, chatLog>>
sockVars == <<agent_ws, agent_in, agent_out>>
crudVars == <<crud>>
vars ==
    <<registryVars, dbVars, schedVars, agentVars, toolVars, locVars, chatVars,
      sockVars, crudVars>>

(***************************************************************************)
(* Python list and dict primitives used by ConnectionManager.              *)
(***************************************************************************)
Elems(list) == {list[i] : i \in 1 .. Len(list)}

\* The index of the first occurrence of x in list (0 when absent).
RECURSIVE IndexFrom(_, _, _)
IndexFrom(list, x, i) ==
    IF i > Len(list) THEN 0
    ELSE IF list[i] = x THEN i
    ELSE IndexFrom(list, x, i + 1)

\* list.remove(x): removes the first occurrence only.
ListRemove(list, x) ==
    LET i == IndexFrom(list, x, 1)
    IN  IF i = 0 THEN list
        ELSE SubSeq(list, 1, i - 1) \o SubSeq(list, i + 1, Len(list))

\* del d[k]
DictDel(d, k) == [x \in (DOMAIN d) \ {k} |-> d[x]]

\* d[k] when k is a key of d, the empty list otherwise (for reading only).
Lookup(d, k) == IF k \in DOMAIN d THEN d[k] ELSE <<>>

(***************************************************************************)
(* ConnectionManager.connect, after `await websocket.accept()` returned.   *)
(***************************************************************************)
\* A connect that registers the websocket once more when the key exists.
connect_appends_again(reg, websocket, key) ==
    IF key \notin DOMAIN reg THEN reg @@ (key :> <<websocket>>)
    ELSE [reg EXCEPT ![key] = Append(Append(@, websocket), websocket)]

connect(reg, websocket, key) ==
    LET reg1 == IF key \notin DOMAIN reg THEN reg @@ (key :> <<>>) ELSE reg
    IN  [reg1 EXCEPT ![key] = Append(@, websocket)]

(***************************************************************************)
(* ConnectionManager.disconnect.  The result is the registry after the     *)
(* call and whether the call raised (list.remove raises ValueError for an  *)
(* absent element, `del` and indexing raise KeyError for an absent key).   *)
(***************************************************************************)
\* A disconnect without the membership guards of lines 26-27.
disconnect_unguarded(reg, websocket, key) ==
    IF key \notin DOMAIN reg THEN [raised |-> TRUE, reg |-> reg]
    ELSE IF websocket \notin Elems(reg[key]) THEN [raised |-> TRUE, reg |-> reg]
    ELSE LET list == ListRemove(reg[key], websocket)
         IN  [raised |-> FALSE,
              reg |-> IF list = <<>> THEN DictDel(reg, key)
                      ELSE [reg EXCEPT ![key] = list]]

\* A disconnect without the cleanup of lines 28-29.
disconnect_keeps_empty_key(reg, websocket, key) ==
    IF key \in DOMAIN reg
    THEN [raised |-> FALSE,
          reg |-> [reg EXCEPT ![key] = ListRemove(@, websocket)]]
    ELSE [raised |-> FALSE, reg |-> reg]

disconnect(reg, websocket, key) ==
    IF key \in DOMAIN reg
    THEN LET list == IF websocket \in Elems(reg[key])
                     THEN ListRemove(reg[key], websocket)
                     ELSE reg[key]
         IN  [raised |-> FALSE,
              reg |-> IF list = <<>> THEN DictDel(reg, key)
                      ELSE [reg EXCEPT ![key] = list]]
    ELSE [raised |-> FALSE, reg |-> reg]

(***************************************************************************)
(* The broadcast coroutine.  `for connection in self.active_connections    *)
(* [pair_id]` holds the list object and an index into it; the list is      *)
(* mutated in place by connect and disconnect while the coroutine is       *)
(* suspended in a send.  `del active_connections[key]` detaches the list   *)
(* object from the dict; it is empty then and stays empty.                 *)
(***************************************************************************)
IdleBcast ==
    [pc |-> "idle", mgr |-> "none", key |-> "none", kind |-> "none",
     sender |-> NoConn, pos |-> 0, cur |-> NoConn, detached |-> FALSE,
     startList |-> <<>>, delivered |-> <<>>, evicted |-> <<>>]

\* The list object the iterator of the broadcast in flight reads.
IterList(b, ac) ==
    IF b.detached \/ b.key \notin DOMAIN ac[b.mgr] THEN <<>>
    ELSE ac[b.mgr][b.key]

\* The list iterator's next element that is not sender_socket: its index,
\* or 0 when the iterator is exhausted (no suspension in between).
RECURSIVE NextTarget(_, _, _)
NextTarget(list, pos, sender) ==
    IF pos + 1 > Len(list) THEN 0
    ELSE IF list[pos + 1] # sender THEN pos + 1
    ELSE NextTarget(list, pos + 1, sender)

\* Run the loop from iterator position pos up to the next send, or to the end.
Advance(b, list) ==
    LET j == NextTarget(list, b.pos, b.sender)
    IN  IF j = 0
        THEN [b EXCEPT !.pc = "done", !.cur = NoConn, !.pos = Len(list)]
        ELSE [b EXCEPT !.pc = "sending", !.cur = list[j], !.pos = j]

\* A change of manager m's dict seen from the broadcast in flight: the
\* iterated list object is detached once its key is deleted.
Track(b, m, regAfter) ==
    IF b.pc = "sending" /\ b.mgr = m /\ ~b.detached /\ b.key \notin DOMAIN regAfter
    THEN [b EXCEPT !.detached = TRUE]
    ELSE b

(***************************************************************************)
(* Actions of the registry.  All coroutines run on one event loop: another *)
(* task runs only while the broadcast is suspended in a send (pc =         *)
(* "sending") or when no broadcast is running (pc = "idle").  pc = "done"  *)
(* is the instant at which the broadcast returns to its caller.            *)
(***************************************************************************)
OtherTaskMayRun == bcast.pc # "done" /\ tick.pc \in {"idle", "broadcast"}

\* A connect on managers that share one dict (active_connections as a class
\* attribute): the websocket is registered with every manager.
Connect_shared_registry(m, ws, k) ==
    /\ OtherTaskMayRun
    /\ ws \notin accepted
    /\ accepted' = accepted \cup {ws}
    /\ joined' = [joined EXCEPT ![ws] = <<m, k>>]
    /\ closed' = closed
    /\ active_connections' =
           [m2 \in Managers |-> connect(active_connections[m2], ws, k)]
    /\ bcast' = bcast

\* A socket handler starts: manager.connect(websocket, key).  accept() can
\* be called once per WebSocket, so a websocket joins at most once.
Connect(m, ws, k) ==
    /\ OtherTaskMayRun
    /\ ws \notin accepted
    /\ accepted' = accepted \cup {ws}
    /\ joined' = [joined EXCEPT ![ws] = <<m, k>>]
    /\ closed' = closed
    /\ active_connections' =
           [active_connections EXCEPT ![m] = connect(@, ws, k)]
    /\ bcast' = bcast

\* A handler that terminates without calling manager.disconnect.
Disconnect_without_cleanup(m, ws, k) ==
    /\ OtherTaskMayRun
    /\ ws \in accepted \ closed
    /\ joined[ws] = <<m, k>>
    /\ closed' = closed \cup {ws}
    /\ UNCHANGED <<active_connections, bcast, accepted, joined>>

\* manager.disconnect(websocket, key), from a handler's except clause: the
\* handler passes the websocket and key it connected with, and terminates.
Disconnect(m, ws, k) ==
    /\ OtherTaskMayRun
    /\ ws \in accepted \ closed
    /\ joined[ws] = <<m, k>>
    /\ closed' = closed \cup {ws}
    /\ LET r == disconnect(active_connections[m], ws, k)
       IN  /\ active_connections' = [active_connections EXCEPT ![m] = r.reg]
           /\ bcast' = Track(bcast, m, r.reg)
    /\ UNCHANGED <<accepted, joined>>

\* The coroutine frame of a broadcast call that has run to its first send
\* (or has returned: `if pair_id not in self.active_connections: return`).
StartBroadcast(ac, m, k, sender, kind) ==
    LET b0 == [IdleBcast EXCEPT !.mgr = m, !.key = k, !.kind = kind,
                                !.sender = sender,
                                !.startList = Lookup(ac[m], k)]
    IN  IF k \notin DOMAIN ac[m]
        THEN [b0 EXCEPT !.pc = "done"]
        ELSE Advance(b0, ac[m][k])

\* broadcast_json / broadcast_bytes / broadcast_text is called and runs to
\* its first send (or returns).
BroadcastStart(m, k, sender, kind) ==
    /\ bcast.pc = "idle"
    /\ \E cs \in CallSites :
          /\ cs.mgr = m /\ cs.kind = kind
          /\ IF cs.exclude
             THEN sender \in accepted \ closed /\ joined[sender] = <<m, k>>
             ELSE sender = NoConn
    /\ tick.pc = "idle"
    /\ bcast' = StartBroadcast(active_connections, m, k, sender, kind)
    /\ UNCHANGED <<active_connections, accepted, joined, closed>>

\* The send in flight completes (ok) or raises; on an exception the
\* connection is evicted with self.disconnect, and the loop goes on.
BroadcastSendDone(ok) ==
    /\ bcast.pc = "sending"
    /\ LET m   == bcast.mgr
           r   == IF ok THEN [raised |-> FALSE, reg |-> active_connections[m]]
                  ELSE disconnect(active_connections[m], bcast.cur, bcast.key)
           ac1 == [active_connections EXCEPT ![m] = r.reg]
           b1  == IF ok THEN [bcast EXCEPT !.delivered = Append(@, bcast.cur)]
                  ELSE Track([bcast EXCEPT !.evicted = Append(@, bcast.cur)],
                             m, r.reg)
       IN  /\ active_connections' = ac1
           /\ bcast' = Advance(b1, IterList(b1, ac1))
    /\ UNCHANGED <<accepted, joined, closed>>

\* The broadcast returns to the handler that called it.
BroadcastReturn ==
    /\ bcast.pc = "done"
    /\ tick.pc = "idle"
    /\ bcast' = IdleBcast
    /\ UNCHANGED <<active_connections, accepted, joined, closed>>

(***************************************************************************)
(* Strings are sequences of characters (one-character strings; a month     *)
(* abbreviation and AM/PM are single tokens).                              *)
(***************************************************************************)
Digit(d) == <<"0", "1", "2", "3", "4", "5", "6", "7", "8", "9">>[d + 1]

\* str(n) for a natural number n.
RECURSIVE Str(_)
Str(n) == IF n < 10 THEN <<Digit(n)>> ELSE Str(n \div 10) \o <<Digit(n % 10)>>

\* Zero-padded decimal of width 2 (%d, %I, %M) and of width 4 (%Y).
Pad2(n) == IF n < 10 THEN <<"0">> \o Str(n) ELSE Str(n)
Pad4(n) ==
    IF n < 10 THEN <<"0", "0", "0">> \o Str(n)
    ELSE IF n < 100 THEN <<"0", "0">> \o Str(n)
    ELSE IF n < 1000 THEN <<"0">> \o Str(n)
    ELSE Str(n)

(***************************************************************************)
(* datetime.now(): the wall clock, in seconds since Epoch, as a calendar   *)
(* date and a time of day.                                                 *)
(***************************************************************************)
Epoch == [year |-> 2024, month |-> 12, day |-> 31, hour |-> 23, minute |-> 58]

IsLeap(y) == (y % 4 = 0 /\ y % 100 # 0) \/ y % 400 = 0

DaysInMonth(y, m) ==
    IF m \in {4, 6, 9, 11} THEN 30
    ELSE IF m = 2 THEN (IF IsLeap(y) THEN 29 ELSE 28)
    ELSE 31

NextDay(d) ==
    IF d.day < DaysInMonth(d.year, d.month) THEN [d EXCEPT !.day = @ + 1]
    ELSE IF d.month < 12 THEN [d EXCEPT !.month = @ + 1, !.day = 1]
    ELSE [year |-> d.year + 1, month |-> 1, day |-> 1]

RECURSIVE AddDays(_, _)
AddDays(d, n) == IF n = 0 THEN d ELSE AddDays(NextDay(d), n - 1)

DateTimeAt(t) ==
    LET m == Epoch.hour * 60 + Epoch.minute + (t \div 60)
        d == AddDays([year |-> Epoch.year, month |-> Epoch.month, day |-> Epoch.day],
                     m \div 1440)
    IN  [year |-> d.year, month |-> d.month, day |-> d.day,
         hour |-> (m % 1440) \div 60, minute |-> m % 60]

MonthAbbr ==
    <<"Jan", "Feb", "Mar", "Apr", "May", "Jun",
      "Jul", "Aug", "Sep", "Oct", "Nov", "Dec">>

\* now.strftime("%d %b %Y")
strftime_date(dt) ==
    Pad2(dt.day) \o <<" ", MonthAbbr[dt.month], " ">> \o Pad4(dt.year)

\* now.strftime("%I:%M %p")
strftime_time(dt) ==
    Pad2(IF dt.hour % 12 = 0 THEN 12 ELSE dt.hour % 12)
        \o <<":">> \o Pad2(dt.minute)
        \o <<" ", IF dt.hour < 12 THEN "AM" ELSE "PM">>

\* The same instant written without zero padding ("1 Jan 2025", "9:05 AM"):
\* strptime("%d %b %Y %I:%M %p") accepts it, so the CRUD endpoints store it.
unpadded_date(dt) ==
    Str(dt.day) \o <<" ", MonthAbbr[dt.month], " ">> \o Pad4(dt.year)

unpadded_time(dt) ==
    Str(IF dt.hour % 12 = 0 THEN 12 ELSE dt.hour % 12)
        \o <<":">> \o Pad2(dt.minute)
        \o <<" ", IF dt.hour < 12 THEN "AM" ELSE "PM">>

(***************************************************************************)
(* The database.                                                           *)
(***************************************************************************)
NoUser == "none"
NoToken == "none"

\* Reminder.pair_id is a plain string column: "p4" has no row in pairs.
PairIds == {"p1", "p2", "p3", "p4"}

\* p1: both parties have a device token; p2: only the caretaker has one;
\* p3: no caretaker and the patient has no token.
PairsTable ==
    [p \in {"p1", "p2", "p3"} |->
        IF p = "p1" THEN [patient_user_id |-> "u1", caretaker_user_id |-> "u2"]
        ELSE IF p = "p2" THEN [patient_user_id |-> "u3", caretaker_user_id |-> "u4"]
        ELSE [patient_user_id |-> "u5", caretaker_user_id |-> NoUser]]

UsersTable ==
    [u \in {"u1", "u2", "u3", "u4", "u5"} |->
        [fcm_token |-> IF u \in {"u1", "u2", "u4"} THEN <<"tok", u>> ELSE NoToken]]

\* The (date, time) strings a stored reminder may carry: the canonical
\* rendering of the second and third minute of the run, and the third
\* minute written without zero padding.
Stamps ==
    { [date |-> strftime_date(DateTimeAt(60)), time |-> strftime_time(DateTimeAt(60))],
      [date |-> strftime_date(DateTimeAt(120)), time |-> strftime_time(DateTimeAt(120))],
      [date |-> unpadded_date(DateTimeAt(120)), time |-> unpadded_time(DateTimeAt(120))] }

ReminderTables ==
    { [i \in 1 .. MaxReminders |->
          [id |-> i, pair_id |-> p[i], title |-> <<"title ">> \o Str(i),
           date |-> st[i].date, time |-> st[i].time]] :
        p \in [1 .. MaxReminders -> PairIds], st \in [1 .. MaxReminders -> Stamps] }

(***************************************************************************)
(* check_reminders_job and _process_due_reminder.                          *)
(***************************************************************************)
\* scheduler.add_job(check_reminders_job, 'interval', seconds=60)
Period == 60
\* The first run is Period after start_scheduler(); here the scheduler was
\* started 1 second before Epoch.
FirstRun == Period - 1

IdleTick ==
    [pc |-> "idle", now |-> 0, date |-> <<>>, time |-> <<>>, selectOk |-> TRUE,
     due |-> <<>>, idx |-> 0, attempted |-> <<>>, failed |-> <<>>,
     pushes |-> <<>>, expired |-> <<>>]

\* db.query(Reminder).filter(Reminder.date == d, Reminder.time == t).all():
\* the ids of the matching rows (in id order).
RECURSIVE DueFrom(_, _, _, _)
DueFrom(rows, d, t, i) ==
    IF i > Len(rows) THEN <<>>
    ELSE (IF rows[i].date = d /\ rows[i].time = t THEN <<rows[i].id>> ELSE <<>>)
             \o DueFrom(rows, d, t, i + 1)

\* A select that filters on Reminder.time alone.
DueReminders_time_only(rows, d, t) ==
    SelectSeq([i \in 1 .. Len(rows) |-> rows[i].id],
              LAMBDA i : rows[i].time = t)

DueReminders(rows, d, t) == DueFrom(rows, d, t, 1)

\* A token collection without lines 55-58.
CollectTokens_patient_only(pair, usr) ==
    IF pair.patient_user_id # NoUser
        /\ pair.patient_user_id \in DOMAIN usr
        /\ usr[pair.patient_user_id].fcm_token # NoToken
    THEN <<usr[pair.patient_user_id].fcm_token>> ELSE <<>>

\* Lines 47-58: the FCM tokens of the patient and of the caretaker.
CollectTokens(pair, usr) ==
    (IF pair.patient_user_id # NoUser
        /\ pair.patient_user_id \in DOMAIN usr
        /\ usr[pair.patient_user_id].fcm_token # NoToken
     THEN <<usr[pair.patient_user_id].fcm_token>> ELSE <<>>)
    \o
    (IF pair.caretaker_user_id # NoUser
        /\ pair.caretaker_user_id \in DOMAIN usr
        /\ usr[pair.caretaker_user_id].fcm_token # NoToken
     THEN <<usr[pair.caretaker_user_id].fcm_token>> ELSE <<>>)

\* The data of the multicast push (lines 67-73).
PushData(r) ==
    [type |-> "new_reminder", title |-> r.title, date |-> r.date,
     time |-> r.time, id |-> Str(r.id)]

\* _process_due_reminder up to its broadcast.  dbFail names the query that
\* raises ("none", "pair", "patient", "caretaker").  The result says whether
\* the body raised into its except clause, the push dispatched (tokens
\* empty: none) and whether the EXPIRED broadcast is reached.
process_due_reminder(r, prs, usr, dbFail) ==
    IF dbFail = "pair"
    THEN [raised |-> TRUE, tokens |-> <<>>, broadcast |-> FALSE]
    ELSE IF r.pair_id \notin DOMAIN prs
    THEN [raised |-> FALSE, tokens |-> <<>>, broadcast |-> FALSE]
    ELSE LET pair == prs[r.pair_id]
         IN  IF \/ dbFail = "patient" /\ pair.patient_user_id # NoUser
                \/ dbFail = "caretaker" /\ pair.caretaker_user_id # NoUser
             THEN [raised |-> TRUE, tokens |-> <<>>, broadcast |-> FALSE]
             ELSE [raised |-> FALSE, tokens |-> CollectTokens(pair, usr),
                   broadcast |-> TRUE]

\* A loop that stops at the first reminder whose processing raised.
next_due_abort_on_failure(t, raised) ==
    IF raised \/ t.idx >= Len(t.due) THEN [t EXCEPT !.pc = "done"]
    ELSE [t EXCEPT !.pc = "process", !.idx = @ + 1]

\* `for reminder in due_reminders`: the loop after _process_due_reminder
\* returned for due[idx] (an exception inside it has been logged there).
next_due(t, raised) ==
    IF t.idx < Len(t.due) THEN [t EXCEPT !.pc = "process", !.idx = @ + 1]
    ELSE [t EXCEPT !.pc = "done"]

\* An interval run starts: datetime.now() is read j seconds after the
\* nominal run time, and the due rows are selected (dbOk: the query did
\* not raise).
TickStart(j, dbOk) ==
    /\ tick.pc = "idle" /\ bcast.pc = "idle"
    /\ tickNo < MaxTicks
    /\ tickNo' = tickNo + 1
    /\ nextRun' = nextRun + Period
    /\ LET now == nextRun + j
           d   == strftime_date(DateTimeAt(now))
           t   == strftime_time(DateTimeAt(now))
           due == DueReminders(reminders, d, t)
           t0  == [IdleTick EXCEPT !.now = now, !.date = d, !.time = t]
       IN  tick' = IF ~dbOk THEN [t0 EXCEPT !.pc = "done", !.selectOk = FALSE]
                   ELSE IF due = <<>> THEN [t0 EXCEPT !.pc = "done"]
                   ELSE [t0 EXCEPT !.pc = "process", !.due = due, !.idx = 1]
    /\ UNCHANGED <<fireCount, registryVars, dbVars>>

\* _process_due_reminder(db, due[idx]) runs up to its broadcast (there is no
\* suspension point before it), or returns early, or raises and logs.
ProcessDue(dbFail, pushOk) ==
    /\ tick.pc = "process"
    /\ LET r   == reminders[tick.due[tick.idx]]
           res == process_due_reminder(r, pairs, users, dbFail)
           t1  == [tick EXCEPT
                      !.attempted = Append(@, r.id),
                      !.failed = IF res.raised THEN Append(@, r.id) ELSE @,
                      !.pushes = IF res.tokens # <<>>
                                 THEN Append(@, [rid |-> r.id, tokens |-> res.tokens,
                                                 data |-> PushData(r), ok |-> pushOk])
                                 ELSE @,
                      !.expired = IF res.broadcast
                                  THEN Append(@, [type |-> "EXPIRED", id |-> r.id,
                                                  key |-> r.pair_id])
                                  ELSE @]
       IN  /\ fireCount' = [fireCount EXCEPT ![r.id] = @ + 1]
           /\ IF res.broadcast
              THEN /\ tick' = [t1 EXCEPT !.pc = "broadcast"]
                   /\ bcast' = StartBroadcast(active_connections, "reminder",
                                              r.pair_id, NoConn, "json")
              ELSE /\ tick' = next_due(t1, res.raised)
                   /\ bcast' = bcast
    /\ UNCHANGED <<nextRun, tickNo, active_connections, accepted, joined, closed, dbVars>>

\* reminder_manager.broadcast_json returned: the loop goes on.
TickResume ==
    /\ tick.pc = "broadcast" /\ bcast.pc = "done"
    /\ bcast' = IdleBcast
    /\ tick' = next_due(tick, FALSE)
    /\ UNCHANGED <<nextRun, tickNo, fireCount, active_connections, accepted,
                   joined, closed, dbVars>>

\* A job that deletes the rows it has processed before it returns.
TickReturn_deletes_processed ==
    /\ tick.pc = "done"
    /\ tick' = IdleTick
    /\ reminders' = SelectSeq(reminders, LAMBDA r : r.id \notin Elems(tick.attempted))
    /\ UNCHANGED <<nextRun, tickNo, fireCount, registryVars, pairs, users, alerts,
                   reminder_seq>>

\* check_reminders_job returns (finally: db.close()).
TickReturn ==
    /\ tick.pc = "done"
    /\ tick' = IdleTick
    /\ UNCHANGED <<nextRun, tickNo, fireCount, registryVars, dbVars>>
(***************************************************************************)
(* The agent's conversation memory (chatbot/langgraph_agent.py).           *)
(***************************************************************************)
\* len(agent_conversations[patient_id]) > 10 ... [-10:]
HistoryCap == 10
\* conversation_history[-4:]
ContextWindow == 4

\* list[-n:]
LastN(list, n) ==
    IF Len(list) <= n THEN list ELSE SubSeq(list, Len(list) - n + 1, Len(list))

\* A miss that starts the new session from the list of an existing one.
get_agent_history_from_existing(convs, patient_id) ==
    IF patient_id \in DOMAIN convs THEN convs
    ELSE IF DOMAIN convs = {} THEN (patient_id :> <<>>)
    ELSE convs @@ (patient_id :> convs[CHOOSE k \in DOMAIN convs : TRUE])

\* get_agent_history: the dict after the call (the key is created on a miss).
get_agent_history(convs, patient_id) ==
    IF patient_id \in DOMAIN convs THEN convs ELSE convs @@ (patient_id :> <<>>)

\* An append that trims with [:10], keeping the oldest entries.
add_to_agent_history_keep_first(convs, patient_id, role, content) ==
    LET c1 == get_agent_history(convs, patient_id)
        l  == Append(c1[patient_id], [role |-> role, content |-> content])
    IN  [c1 EXCEPT ![patient_id] =
            IF Len(l) > HistoryCap THEN SubSeq(l, 1, HistoryCap) ELSE l]

\* add_to_agent_history: append, then keep the last HistoryCap entries.
add_to_agent_history(convs, patient_id, role, content) ==
    LET c1 == get_agent_history(convs, patient_id)
        l  == Append(c1[patient_id], [role |-> role, content |-> content])
    IN  [c1 EXCEPT ![patient_id] =
            IF Len(l) > HistoryCap THEN LastN(l, HistoryCap) ELSE l]

\* The entries of n earlier turns of a patient, oldest first.
RECURSIVE EarlierEntries(_)
EarlierEntries(n) ==
    IF n = 0 THEN <<>>
    ELSE EarlierEntries(n - 1)
            \o << [role |-> "user", content |-> <<"earlier question ">> \o Str(n)],
                  [role |-> "assistant", content |-> <<"earlier answer ">> \o Str(n)] >>

\* The memory after the entries es were added to it one by one.
RECURSIVE AddAll(_, _, _)
AddAll(convs, patient_id, es) ==
    IF es = <<>> THEN convs
    ELSE AddAll(add_to_agent_history(convs, patient_id, es[1].role, es[1].content),
                patient_id, Tail(es))

\* How many turns a patient may have had before the run starts: none, one
\* short of the cap, and exactly the cap.
EarlierTurns == {0, 4, 5}

(***************************************************************************)
(* parse_flexible_datetime (chatbot/agent_tools.py).                       *)
(***************************************************************************)
MonthFull ==
    <<"January", "February", "March", "April", "May", "June",
      "July", "August", "September", "October", "November", "December">>

DigitChars == {"0", "1", "2", "3", "4", "5", "6", "7", "8", "9"}
Ordinals == {"st", "nd", "rd", "th"}

\* re.sub(r'(\d+)(st|nd|rd|th)', r'\1', s): drop a suffix that follows a digit.
RECURSIVE StripFrom(_, _)
StripFrom(s, i) ==
    IF i > Len(s) THEN <<>>
    ELSE IF i > 1 /\ s[i] \in Ordinals /\ s[i - 1] \in DigitChars
         THEN StripFrom(s, i + 1)
         ELSE <<s[i]>> \o StripFrom(s, i + 1)

StripOrdinals(s) == StripFrom(s, 1)

\* int(field) of a field of decimal digits.
DigitVal(c) == CHOOSE d \in 0 .. 9 : Digit(d) = c

IsDigits(f) == f # <<>> /\ \A i \in 1 .. Len(f) : f[i] \in DigitChars

RECURSIVE Num(_)
Num(f) ==
    IF f = <<>> THEN 0
    ELSE Num(SubSeq(f, 1, Len(f) - 1)) * 10 + DigitVal(f[Len(f)])

\* s.split(sep)
RECURSIVE Split(_, _)
Split(s, sep) ==
    IF \A i \in 1 .. Len(s) : s[i] # sep THEN <<s>>
    ELSE LET i == CHOOSE k \in 1 .. Len(s) :
                     s[k] = sep /\ \A n \in 1 .. k - 1 : s[n] # sep
         IN  <<SubSeq(s, 1, i - 1)>> \o Split(SubSeq(s, i + 1, Len(s)), sep)

\* The number of the month a %b or %B field names, 0 if none.
MonthIndex(f, names) ==
    IF Len(f) = 1 /\ \E n \in 1 .. 12 : names[n] = f[1]
    THEN CHOOSE n \in 1 .. 12 : names[n] = f[1]
    ELSE 0

NoDate == [year |-> 0, month |-> 0, day |-> 0, hour |-> 0, minute |-> 0]

\* The datetime of the fields of a string, NoDate if one of them is not
\* what its directive accepts: %d and %I and %M and %H take one or two
\* digits, %Y four, %p AM or PM.
ParseParts(day, mon, year, hm, ampm, fmt) ==
    IF /\ IsDigits(day) /\ Len(day) <= 2
       /\ mon # 0
       /\ IsDigits(year) /\ Len(year) = 4
       /\ Num(day) \in 1 .. DaysInMonth(Num(year), mon)
       /\ Len(hm) = 2
       /\ IsDigits(hm[1]) /\ Len(hm[1]) <= 2
       /\ IsDigits(hm[2]) /\ Len(hm[2]) <= 2 /\ Num(hm[2]) <= 59
       /\ IF fmt.clock = "I"
          THEN Num(hm[1]) \in 1 .. 12 /\ ampm \in {<<"AM">>, <<"PM">>}
          ELSE Num(hm[1]) <= 23
    THEN [year |-> Num(year), month |-> mon, day |-> Num(day),
          hour |-> IF fmt.clock = "H" THEN Num(hm[1])
                   ELSE (Num(hm[1]) % 12) + (IF ampm = <<"PM">> THEN 12 ELSE 0),
          minute |-> Num(hm[2])]
    ELSE NoDate

\* A format is "%d <month> [%Y] <clock>": month is %b or %B, clock is
\* "%I:%M %p" or "%H:%M"; nd is its number of date fields and a missing
\* year is 1900.
ParseFields(f, fmt, nd) ==
    IF Len(f) # nd + (IF fmt.clock = "I" THEN 2 ELSE 1) THEN NoDate
    ELSE ParseParts(f[1],
                    MonthIndex(f[2], IF fmt.month = "b" THEN MonthAbbr ELSE MonthFull),
                    IF fmt.year THEN f[3] ELSE Pad4(1900),
                    Split(f[nd + 1], ":"),
                    IF fmt.clock = "I" THEN f[nd + 2] ELSE <<>>,
                    fmt)

\* datetime.strptime(s, fmt), NoDate standing for ValueError.
strptime(s, fmt) == ParseFields(Split(s, " "), fmt, IF fmt.year THEN 3 ELSE 2)

\* formats, then formats_without_year, in the order they are tried.
Formats ==
    << [month |-> "b", year |-> TRUE,  clock |-> "I"],
       [month |-> "B", year |-> TRUE,  clock |-> "I"],
       [month |-> "b", year |-> TRUE,  clock |-> "H"],
       [month |-> "B", year |-> TRUE,  clock |-> "H"],
       [month |-> "b", year |-> FALSE, clock |-> "I"],
       [month |-> "B", year |-> FALSE, clock |-> "I"] >>

\* The loops over the formats: the first format that parses wins, and a
\* format without a year gets the current one.
RECURSIVE TryFormats(_, _, _)
Parsed(dt, s, i, current_year) ==
    IF dt = NoDate THEN TryFormats(s, i + 1, current_year)
    ELSE IF Formats[i].year THEN dt
    ELSE [dt EXCEPT !.year = current_year]

TryFormats(s, i, current_year) ==
    IF i > Len(Formats) THEN NoDate
    ELSE Parsed(strptime(s, Formats[i]), s, i, current_year)

\* Line 66, or the ValueError of line 63: [ok, date, time].
Formatted(dt) ==
    IF dt = NoDate THEN [ok |-> FALSE, date |-> <<>>, time |-> <<>>]
    ELSE [ok |-> TRUE, date |-> strftime_date(dt), time |-> strftime_time(dt)]

\* A parser that leaves the ordinal suffix in the date.
parse_flexible_datetime_no_strip(date_str, time_str, current_year) ==
    Formatted(TryFormats(date_str \o <<" ">> \o time_str, 1, current_year))

parse_flexible_datetime(date_str, time_str, current_year) ==
    Formatted(TryFormats(StripOrdinals(date_str) \o <<" ">> \o time_str, 1, current_year))

(***************************************************************************)
(* The agent's tools (chatbot/agent_tools.py).  A tool takes the tables it *)
(* touches and returns its reply with the tables after its commit.         *)
(***************************************************************************)
UpperLetters ==
    <<"A", "B", "C", "D", "E", "F", "G", "H", "I", "J", "K", "L", "M",
      "N", "O", "P", "Q", "R", "S", "T", "U", "V", "W", "X", "Y", "Z">>
LowerLetters ==
    <<"a", "b", "c", "d", "e", "f", "g", "h", "i", "j", "k", "l", "m",
      "n", "o", "p", "q", "r", "s", "t", "u", "v", "w", "x", "y", "z">>

\* str.lower()
Lower(s) ==
    [i \in 1 .. Len(s) |->
        IF \E n \in 1 .. 26 : UpperLetters[n] = s[i]
        THEN LowerLetters[CHOOSE n \in 1 .. 26 : UpperLetters[n] = s[i]]
        ELSE s[i]]

\* needle in hay
Contains(needle, hay) ==
    \E i \in 0 .. Len(hay) - Len(needle) :
        SubSeq(hay, i + 1, i + Len(needle)) = needle

\* db.query(Reminder).filter(Reminder.pair_id == pair_id).all()
RowsOfPair(rows, pair_id) == SelectSeq(rows, LAMBDA r : r.pair_id = pair_id)

\* "\n".join(lines)
RECURSIVE JoinLines(_)
JoinLines(lines) ==
    IF lines = <<>> THEN <<>>
    ELSE IF Len(lines) = 1 THEN lines[1]
    ELSE lines[1] \o <<"\n">> \o JoinLines(Tail(lines))

ToolResult(reply, rows, seq, al) ==
    [reply |-> reply, reminders |-> rows, reminder_seq |-> seq, alerts |-> al]

\* A create_reminder that stores the row as given when the parse fails.
Created_stores_unparsed(p, args, rows, seq, al, dbOk) ==
    IF ~p.ok
    THEN ToolResult(<<"Error: Invalid date format. Please use format like '25 Jan 2026' and '5:00 PM'.">>,
                    Append(rows, [id |-> seq + 1, pair_id |-> args.pair_id,
                                  title |-> args.title, date |-> args.date,
                                  time |-> args.time]),
                    seq + 1, al)
    ELSE IF ~dbOk
    THEN ToolResult(<<"Error: Failed to create reminder - ", "db error">>, rows, seq, al)
    ELSE ToolResult(<<"Reminder created successfully! I'll remind you about '">>
                        \o args.title \o <<"' on ">> \o p.date \o <<" at ">>
                        \o p.time \o <<".">>,
                    Append(rows, [id |-> seq + 1, pair_id |-> args.pair_id,
                                  title |-> args.title, date |-> p.date,
                                  time |-> p.time]),
                    seq + 1, al)

\* create_reminder once the date and time are parsed (p).
Created(p, args, rows, seq, al, dbOk) ==
    IF ~p.ok
    THEN ToolResult(<<"Error: Invalid date format. Please use format like '25 Jan 2026' and '5:00 PM'.">>,
                    rows, seq, al)
    ELSE IF ~dbOk
    THEN ToolResult(<<"Error: Failed to create reminder - ", "db error">>, rows, seq, al)
    ELSE ToolResult(<<"Reminder created successfully! I'll remind you about '">>
                        \o args.title \o <<"' on ">> \o p.date \o <<" at ">>
                        \o p.time \o <<".">>,
                    Append(rows, [id |-> seq + 1, pair_id |-> args.pair_id,
                                  title |-> args.title, date |-> p.date,
                                  time |-> p.time]),
                    seq + 1, al)

create_reminder(args, rows, seq, al, now, dbOk) ==
    Created(parse_flexible_datetime(args.date, args.time, DateTimeAt(now).year),
            args, rows, seq, al, dbOk)

\* A key that orders datetimes as the calendar does.
DtKey(dt) == (((dt.year * 12 + dt.month) * 31 + dt.day) * 24 + dt.hour) * 60 + dt.minute

\* reminder_dt >= now (now is in seconds; a parsed datetime has none); a
\* row that does not parse is skipped.
NotBefore(dt, now_dt, now) ==
    /\ dt # NoDate
    /\ \/ DtKey(dt) > DtKey(now_dt)
       \/ DtKey(dt) = DtKey(now_dt) /\ now % 60 = 0

IsUpcoming(r, now) ==
    NotBefore(strptime(r.date \o <<" ">> \o r.time, Formats[1]), DateTimeAt(now), now)

\* f"{idx}. {r.title} - {r.date} at {r.time}"
ListLine(idx, r) ==
    Str(idx) \o <<". ">> \o r.title \o <<" - ">> \o r.date \o <<" at ">> \o r.time

\* Lines 135-142.
ListUpcoming(upcoming) ==
    IF upcoming = <<>>
    THEN <<"All your reminders have passed. You don't have any upcoming reminders.">>
    ELSE <<"You have ">> \o Str(Len(upcoming)) \o <<" upcoming reminder(s):", "\n">>
            \o JoinLines([i \in 1 .. Len(upcoming) |-> ListLine(i, upcoming[i])])

\* Lines 117-133.
ListMine(mine, now) ==
    IF mine = <<>> THEN <<"You don't have any reminders set right now.">>
    ELSE ListUpcoming(SelectSeq(mine, LAMBDA r : IsUpcoming(r, now)))

list_reminders(args, rows, seq, al, now, dbOk) ==
    IF ~dbOk THEN ToolResult(<<"Error fetching reminders.">>, rows, seq, al)
    ELSE ToolResult(ListMine(RowsOfPair(rows, args.pair_id), now), rows, seq, al)

\* Lines 159-165.
DeleteFirst(matching, args, rows, seq, al) ==
    IF matching = <<>>
    THEN ToolResult(<<"I couldn't find a reminder matching '">>
                        \o args.reminder_title \o <<"'.">>, rows, seq, al)
    ELSE ToolResult(<<"I've deleted the reminder '">> \o matching[1].title \o <<"'.">>,
                    SelectSeq(rows, LAMBDA r : r.id # matching[1].id), seq, al)

delete_reminder(args, rows, seq, al, now, dbOk) ==
    IF ~dbOk THEN ToolResult(<<"Error deleting reminder: ", "db error">>, rows, seq, al)
    ELSE DeleteFirst(SelectSeq(RowsOfPair(rows, args.pair_id), LAMBDA r :
                         Contains(Lower(args.reminder_title), Lower(r.title))),
                     args, rows, seq, al)

\* An alert tool that reports the failed commit to the caller.
send_emergency_alert_reports_error(args, rows, seq, al, now, dbOk) ==
    IF ~dbOk THEN ToolResult(<<"Error: Failed to send alert - ", "db error">>, rows, seq, al)
    ELSE ToolResult(<<"I've notified your caregiver. Help is on the way.">>, rows, seq,
                    Append(al, [pair_id |-> args.pair_id, alert_type |-> "emergency",
                                reason |-> args.reason, status |-> "pending"]))

send_emergency_alert(args, rows, seq, al, now, dbOk) ==
    IF ~dbOk THEN ToolResult(<<"I'm here with you. Let me help you feel safe.">>, rows, seq, al)
    ELSE ToolResult(<<"I've notified your caregiver. Help is on the way.">>, rows, seq,
                    Append(al, [pair_id |-> args.pair_id, alert_type |-> "emergency",
                                reason |-> args.reason, status |-> "pending"]))

\* TOOL_MAP, with the arguments each tool's schema requires.
TOOL_MAP ==
    [create_reminder      |-> {"pair_id", "title", "date", "time"},
     list_reminders       |-> {"pair_id"},
     delete_reminder      |-> {"pair_id", "reminder_title"},
     send_emergency_alert |-> {"pair_id", "reason"}]

\* tool_func.invoke(tool_args): [raised, result]; the schema check raises
\* when a required argument is missing.
invoke(name, args, rows, seq, al, now, dbOk) ==
    IF ~(TOOL_MAP[name] \subseteq DOMAIN args)
    THEN [raised |-> TRUE, result |-> ToolResult(<<"validation error">>, rows, seq, al)]
    ELSE [raised |-> FALSE,
          result |-> CASE name = "create_reminder" ->
                            create_reminder(args, rows, seq, al, now, dbOk)
                       [] name = "list_reminders" ->
                            list_reminders(args, rows, seq, al, now, dbOk)
                       [] name = "delete_reminder" ->
                            delete_reminder(args, rows, seq, al, now, dbOk)
                       [] name = "send_emergency_alert" ->
                            send_emergency_alert(args, rows, seq, al, now, dbOk)]

(***************************************************************************)
(* run_agent (chatbot/langgraph_agent.py).                                 *)
(***************************************************************************)
\* An injection that trusts a pair_id the oracle supplied.
inject_pair_id_if_missing(tool_args, pair_id) ==
    IF "pair_id" \notin DOMAIN tool_args
    THEN [k \in DOMAIN tool_args \cup {"pair_id"} |->
            IF k = "pair_id" THEN pair_id ELSE tool_args[k]]
    ELSE tool_args

\* Lines 104-105: tool_args["pair_id"] = pair_id unless it already is.
inject_pair_id(tool_args, pair_id) ==
    IF "pair_id" \notin DOMAIN tool_args \/ tool_args["pair_id"] # pair_id
    THEN [k \in DOMAIN tool_args \cup {"pair_id"} |->
            IF k = "pair_id" THEN pair_id ELSE tool_args[k]]
    ELSE tool_args

NoCall == [name |-> "none", args |-> <<>>]

NoToolRun(response, rows, seq, al) ==
    [response |-> response, call |-> NoCall, reminders |-> rows,
     reminder_seq |-> seq, alerts |-> al]

\* Lines 107-113: the tool's result, or the apology when invoke raised.
ToolRun(name, tool_args, out) ==
    [response |-> IF out.raised
                  THEN <<"I tried to do that, but something went wrong: ">>
                          \o out.result.reply
                  ELSE out.result.reply,
     call |-> [name |-> name, args |-> tool_args],
     reminders |-> out.result.reminders,
     reminder_seq |-> out.result.reminder_seq,
     alerts |-> out.result.alerts]

\* A tool use that has no words for a tool it does not have.
UseTool_unknown_tool_silent(tool_call, pair_id, rows, seq, al, now, dbOk) ==
    IF tool_call.name \in DOMAIN TOOL_MAP
    THEN ToolRun(tool_call.name, inject_pair_id(tool_call.args, pair_id),
                 invoke(tool_call.name, inject_pair_id(tool_call.args, pair_id),
                        rows, seq, al, now, dbOk))
    ELSE NoToolRun(<<>>, rows, seq, al)

\* A tool use that raises the alarm for a tool it does not have.
UseTool_unknown_tool_alerts(tool_call, pair_id, rows, seq, al, now, dbOk) ==
    IF tool_call.name \in DOMAIN TOOL_MAP
    THEN ToolRun(tool_call.name, inject_pair_id(tool_call.args, pair_id),
                 invoke(tool_call.name, inject_pair_id(tool_call.args, pair_id),
                        rows, seq, al, now, dbOk))
    ELSE ToolRun("send_emergency_alert", [pair_id |-> pair_id, reason |-> <<"fall">>],
                 invoke("send_emergency_alert",
                        [pair_id |-> pair_id, reason |-> <<"fall">>],
                        rows, seq, al, now, dbOk))

\* Lines 94-115: only the first tool call is looked at.
UseTool(tool_call, pair_id, rows, seq, al, now, dbOk) ==
    IF tool_call.name \in DOMAIN TOOL_MAP
    THEN ToolRun(tool_call.name, inject_pair_id(tool_call.args, pair_id),
                 invoke(tool_call.name, inject_pair_id(tool_call.args, pair_id),
                        rows, seq, al, now, dbOk))
    ELSE NoToolRun(<<"I tried to use a tool I don't have.">>, rows, seq, al)

\* A run_agent that executes every tool call of the answer in turn.
RECURSIVE UseTools(_, _, _, _, _, _, _)
UseToolsAfter(first, rest, pair_id, now, dbOk) ==
    [UseTools(rest, pair_id, first.reminders, first.reminder_seq, first.alerts, now, dbOk)
        EXCEPT !.call = first.call]

UseTools(tool_calls, pair_id, rows, seq, al, now, dbOk) ==
    IF Len(tool_calls) = 1
    THEN UseTool(tool_calls[1], pair_id, rows, seq, al, now, dbOk)
    ELSE UseToolsAfter(UseTool(tool_calls[1], pair_id, rows, seq, al, now, dbOk),
                       Tail(tool_calls), pair_id, now, dbOk)

run_agent_every_tool_call(pair_id, answer, rows, seq, al, now, dbOk) ==
    IF answer.raises
    THEN NoToolRun(<<"I'm having trouble connecting right now. Please try again.">>,
                   rows, seq, al)
    ELSE IF answer.tool_calls # <<>>
    THEN UseTools(answer.tool_calls, pair_id, rows, seq, al, now, dbOk)
    ELSE NoToolRun(IF answer.content # <<>> THEN answer.content
                   ELSE <<"I heard you, but I'm not sure what to do.">>,
                   rows, seq, al)

\* What run_agent does once llm.ainvoke has answered (or raised): the
\* response text, the tool call made (NoCall if none) and the tables after.
run_agent(pair_id, answer, rows, seq, al, now, dbOk) ==
    IF answer.raises
    THEN NoToolRun(<<"I'm having trouble connecting right now. Please try again.">>,
                   rows, seq, al)
    ELSE IF answer.tool_calls # <<>>
    THEN UseTool(answer.tool_calls[1], pair_id, rows, seq, al, now, dbOk)
    ELSE NoToolRun(IF answer.content # <<>> THEN answer.content
                   ELSE <<"I heard you, but I'm not sure what to do.">>,
                   rows, seq, al)

(***************************************************************************)
(* The agent endpoints (api/v1/chatbot/agent.py): a turn is the handler up *)
(* to the await of llm.ainvoke inside run_agent, then the rest of it.      *)
(***************************************************************************)
PatientIds == {"u1", "u3"}
AgentPairIds == {"p1", "p2"}

IdleTurn ==
    [pc |-> "idle", patient_id |-> "u1", pair_id |-> "p1", message |-> <<>>,
     context |-> <<>>]

NoRun ==
    [pair_id |-> "none", proposed |-> <<>>, call |-> NoCall, response |-> <<>>,
     raised |-> FALSE, content |-> <<>>]

Entry(role, content) == [role |-> role, content |-> content]

\* The text of the n-th message received.
Message(n) == <<"question ">> \o Str(n)

\* messages, less the system prompt: conversation_history[-4:] then the message.
Context(history, message) ==
    LastN(history, ContextWindow) \o <<Entry("user", message)>>

\* What llm.ainvoke may answer: text, nothing, an exception, or tool calls
\* whose arguments carry the caller's pair_id, another one, or none.
Answer(tool_calls, content) ==
    [raises |-> FALSE, tool_calls |-> tool_calls, content |-> content]

Call(name, args) == [name |-> name, args |-> args]

DeleteCall == Call("delete_reminder", [reminder_title |-> <<"p", "i", "l", "l">>])

PlainAnswers ==
    { Answer(<<>>, <<"Hello.">>),
      [raises |-> TRUE, tool_calls |-> <<>>, content |-> <<>>],
      Answer(<<DeleteCall>>, <<>>) }

OracleAnswers ==
    PlainAnswers \cup
    { Answer(<<>>, <<>>),
      Answer(<<Call("create_reminder",
                    [pair_id |-> "p2", title |-> <<"W", "a", "l", "k">>,
                     date |-> <<"1", "st", " ", "January", " ", "2", "0", "2", "5">>,
                     time |-> <<"1", "2", ":", "0", "1", " ", "AM">>])>>, <<>>),
      Answer(<<Call("create_reminder",
                    [title |-> <<"W", "a", "l", "k">>, date |-> <<"tomorrow">>,
                     time |-> <<"9", ":", "0", "0", " ", "AM">>])>>, <<>>),
      Answer(<<Call("create_reminder", [pair_id |-> "p1"])>>, <<>>),
      Answer(<<Call("list_reminders", [pair_id |-> "p1"]), DeleteCall>>, <<"Listing.">>),
      Answer(<<Call("send_emergency_alert",
                    [pair_id |-> "p2", reason |-> <<"fall">>])>>, <<>>),
      Answer(<<Call("call_doctor", [pair_id |-> "p1"])>>, <<>>) }

\* datetime.now() at the calls of a turn: before and after midnight.
AgentNows == {90, 150}

\* POST /chat up to the await: lines 48-55, and run_agent lines 66-90.
HttpStart(s, patient_id, pair_id, limit) ==
    /\ http[s].pc = "idle"
    /\ turnNo < limit
    /\ LET c1 == get_agent_history(agent_conversations, patient_id)
           message == Message(turnNo + 1)
       IN  /\ agent_conversations' = c1
           /\ http' = [http EXCEPT ![s] =
                  [pc |-> "await", patient_id |-> patient_id, pair_id |-> pair_id,
                   message |-> message,
                   context |-> Context(c1[patient_id], message)]]
    /\ turnNo' = turnNo + 1
    /\ UNCHANGED <<appended, wsTurn, lastRun, legacy_conversations, clears, registryVars, dbVars, schedVars, toolVars, locVars, chatVars, sockVars, crudVars>>

\* POST /chat from the answer on: run_agent lines 93-122, agent.py lines 57-64.
HttpDone(s, answer, now, dbOk) ==
    /\ http[s].pc = "await"
    /\ \E t \in {http[s]} :
       \E out \in {run_agent(t.pair_id, answer, reminders, reminder_seq, alerts, now, dbOk)} :
       \E c1 \in {add_to_agent_history(agent_conversations, t.patient_id, "user", t.message)} :
           /\ agent_conversations' =
                  add_to_agent_history(c1, t.patient_id, "assistant", out.response)
           /\ appended' = [appended EXCEPT ![t.patient_id] =
                  @ \o <<Entry("user", t.message), Entry("assistant", out.response)>>]
           /\ reminders' = out.reminders
           /\ reminder_seq' = out.reminder_seq
           /\ alerts' = out.alerts
           /\ lastRun' = [pair_id |-> t.pair_id, proposed |-> answer.tool_calls,
                          call |-> out.call, response |-> out.response,
                          raised |-> answer.raises, content |-> answer.content]
    /\ http' = [http EXCEPT ![s] = IdleTurn]
    /\ UNCHANGED <<turnNo, wsTurn, pairs, users, legacy_conversations, clears, registryVars, schedVars, toolVars, locVars, chatVars, sockVars, crudVars>>

\* The websocket loop from receive_text to the await: agent.py lines 83-108.
\* history is the list fetched before the user entry is appended to it, so
\* it holds that entry whether or not the append trimmed the stored list.
WsStart(limit) ==
    /\ wsTurn.pc = "idle"
    /\ turnNo < limit
    /\ LET c1 == get_agent_history(agent_conversations, wsTurn.patient_id)
           message == Message(turnNo + 1)
           history == Append(c1[wsTurn.patient_id], Entry("user", message))
       IN  /\ agent_conversations' =
                  add_to_agent_history(c1, wsTurn.patient_id, "user", message)
           /\ appended' = [appended EXCEPT ![wsTurn.patient_id] =
                  Append(@, Entry("user", message))]
           /\ wsTurn' = [wsTurn EXCEPT !.pc = "await", !.message = message,
                                !.context = Context(history, message)]
    /\ turnNo' = turnNo + 1
    /\ UNCHANGED <<http, lastRun, legacy_conversations, clears, registryVars, dbVars, schedVars, toolVars, locVars, chatVars, sockVars, crudVars>>

\* The websocket loop from the answer on: run_agent lines 93-122, agent.py
\* lines 111-119.
WsDone(answer, now, dbOk) ==
    /\ wsTurn.pc = "await"
    /\ \E out \in {run_agent(wsTurn.pair_id, answer, reminders, reminder_seq, alerts, now, dbOk)} :
           /\ agent_conversations' =
                  add_to_agent_history(agent_conversations, wsTurn.patient_id,
                                       "assistant", out.response)
           /\ appended' = [appended EXCEPT ![wsTurn.patient_id] =
                  Append(@, Entry("assistant", out.response))]
           /\ reminders' = out.reminders
           /\ reminder_seq' = out.reminder_seq
           /\ alerts' = out.alerts
           /\ lastRun' = [pair_id |-> wsTurn.pair_id, proposed |-> answer.tool_calls,
                          call |-> out.call, response |-> out.response,
                          raised |-> answer.raises, content |-> answer.content]
    /\ wsTurn' = [wsTurn EXCEPT !.pc = "idle", !.message = <<>>, !.context = <<>>]
    /\ UNCHANGED <<turnNo, http, pairs, users, legacy_conversations, clears, registryVars, schedVars, toolVars, locVars, chatVars, sockVars, crudVars>>

\* DELETE /history/{patient_id} (agent.py lines 128-148): the dict it empties
\* the patient's list in is the one of services/langgraph_agent.py.
clear_agent_history(legacy, patient_id) ==
    IF patient_id \in DOMAIN legacy THEN [legacy EXCEPT ![patient_id] = <<>>]
    ELSE legacy

ClearAgentHistory(patient_id) ==
    /\ clears[patient_id] < MaxClears
    /\ clears' = [clears EXCEPT ![patient_id] = @ + 1]
    /\ legacy_conversations' = clear_agent_history(legacy_conversations, patient_id)
    /\ UNCHANGED <<agent_conversations, appended, http, wsTurn, turnNo, lastRun,
                   registryVars, dbVars, schedVars, toolVars, locVars, chatVars, sockVars, crudVars>>

(***************************************************************************)
(* The tools called one at a time (chatbot/agent_tools.py): each call      *)
(* reads the clock once, runs against the tables and commits.              *)
(***************************************************************************)
NoToolCall ==
    [n |-> 0, name |-> "none", args |-> <<>>, now |-> 0, dbOk |-> TRUE,
     raised |-> FALSE, reply |-> <<>>]

TakeMedicine == <<"T", "a", "k", "e", " ", "m", "e", "d", "i", "c", "i", "n", "e">>

\* The date and time arguments tried: the spec's example and its variants.
WhenInputs ==
    { [date |-> <<"1", "1", "th", " ", "January">>, time |-> <<"5", " ", "PM">>],
      [date |-> <<"1", "1", "th", " ", "January">>,
       time |-> <<"5", ":", "0", "0", " ", "PM">>],
      [date |-> <<"1", "st", " ", "Jan", " ", "2", "0", "2", "5">>,
       time |-> <<"1", "2", ":", "0", "1", " ", "AM">>],
      [date |-> <<"1", "2", " ", "January", " ", "2", "0", "2", "5">>,
       time |-> <<"1", "7", ":", "0", "0">>],
      [date |-> <<"tomorrow">>, time |-> <<"9", ":", "0", "0", " ", "AM">>] }

\* The arguments of create_reminder tried: every pair with every date and time.
CreateArgs ==
    { [pair_id |-> k, title |-> TakeMedicine, date |-> w.date, time |-> w.time] :
          k \in AgentPairIds, w \in WhenInputs }

\* A tool is called with complete arguments at clock reading now; the
\* clock does not go back between calls.
CallTool(name, args, now, dbOk) ==
    /\ toolRun.n < MaxCalls
    /\ now >= toolRun.now
    /\ \E out \in {invoke(name, args, reminders, reminder_seq, alerts, now, dbOk)} :
          /\ reminders' = out.result.reminders
          /\ reminder_seq' = out.result.reminder_seq
          /\ alerts' = out.result.alerts
          /\ toolRun' = [n |-> toolRun.n + 1, name |-> name, args |-> args,
                         now |-> now, dbOk |-> dbOk, raised |-> out.raised,
                         reply |-> out.result.reply]
    /\ UNCHANGED <<pairs, users, registryVars, schedVars, agentVars, locVars, chatVars, sockVars, crudVars>>

\* create_reminder(pair_id, title, date, time), its arguments in one record.
CreateReminder(args, now, dbOk) == CallTool("create_reminder", args, now, dbOk)

ListReminders(pair_id, now, dbOk) ==
    CallTool("list_reminders", [pair_id |-> pair_id], now, dbOk)

DeleteReminder(pair_id, reminder_title, now, dbOk) ==
    CallTool("delete_reminder",
             [pair_id |-> pair_id, reminder_title |-> reminder_title], now, dbOk)

SendEmergencyAlert(pair_id, reason, now, dbOk) ==
    CallTool("send_emergency_alert", [pair_id |-> pair_id, reason |-> reason],
             now, dbOk)

(***************************************************************************)
(* The location channel (api/v1/location/location.py).  A handler is the   *)
(* coroutine location_websocket of one websocket: it joins, replays the    *)
(* stored location to a caretaker, then relays and stores what a patient   *)
(* sends.                                                                  *)
(***************************************************************************)
Roles == {"patient", "caretaker"}

IdleLoc ==
    [pc |-> "none", pair_id |-> "none", role |-> "none", data |-> <<>>,
     replay |-> <<>>, persisted |-> "none"]

\* The n-th location a patient's client sends.
Update(n) == [latitude |-> n, longitude |-> 10 + n, user_id |-> "u1"]

\* db.query(LiveLocation).filter(LiveLocation.pair_id == pair_id).first():
\* the index of the row, 0 for None.
FirstLocation(table, pair_id) ==
    IF \E i \in 1 .. Len(table) : table[i].pair_id = pair_id
    THEN CHOOSE i \in 1 .. Len(table) :
            /\ table[i].pair_id = pair_id
            /\ \A j \in 1 .. i - 1 : table[j].pair_id # pair_id
    ELSE 0

\* Lines 28-32: the message replayed for a stored row.
History(row) ==
    [latitude |-> row.latitude, longitude |-> row.longitude, status |-> "history"]

\* Lines 46-59: update the row of the pair, or add one.
persist_location(table, pair_id, data) ==
    IF FirstLocation(table, pair_id) # 0
    THEN [table EXCEPT ![FirstLocation(table, pair_id)] =
             [@ EXCEPT !.latitude = data.latitude, !.longitude = data.longitude,
                       !.patient_user_id = data.user_id]]
    ELSE Append(table, [pair_id |-> pair_id, patient_user_id |-> data.user_id,
                        latitude |-> data.latitude, longitude |-> data.longitude])

\* A join that replays the stored location to every role.
LocJoin_replay_to_all(ws, pair_id, role) ==
    /\ Connect("location", ws, pair_id)
    /\ LET i == FirstLocation(live_location, pair_id)
       IN  loc' = [loc EXCEPT ![ws] =
                      [IdleLoc EXCEPT !.pair_id = pair_id, !.role = role,
                          !.pc = IF i # 0 THEN "replay" ELSE "receive",
                          !.replay = IF i # 0 THEN History(live_location[i])
                                     ELSE <<>>]]
    /\ UNCHANGED <<live_location, received, locNo, dbVars, schedVars, agentVars, toolVars, chatVars, sockVars, crudVars>>

\* A join that enters the receive loop with the replay prepared, not sent.
LocJoin_replay_not_sent(ws, pair_id, role) ==
    /\ Connect("location", ws, pair_id)
    /\ LET i == IF role # "patient" THEN FirstLocation(live_location, pair_id) ELSE 0
       IN  loc' = [loc EXCEPT ![ws] =
                      [IdleLoc EXCEPT !.pair_id = pair_id, !.role = role,
                          !.pc = "receive",
                          !.replay = IF i # 0 THEN History(live_location[i])
                                     ELSE <<>>]]
    /\ UNCHANGED <<live_location, received, locNo, dbVars, schedVars, agentVars, toolVars, chatVars, sockVars, crudVars>>

\* Lines 20-32 up to the first await after accept: the send of the replay
\* for a caretaker when a location is stored, receive_text otherwise.
LocJoin(ws, pair_id, role) ==
    /\ Connect("location", ws, pair_id)
    /\ LET i == IF role # "patient" THEN FirstLocation(live_location, pair_id) ELSE 0
       IN  loc' = [loc EXCEPT ![ws] =
                      [IdleLoc EXCEPT !.pair_id = pair_id, !.role = role,
                          !.pc = IF i # 0 THEN "replay" ELSE "receive",
                          !.replay = IF i # 0 THEN History(live_location[i])
                                     ELSE <<>>]]
    /\ UNCHANGED <<live_location, received, locNo, dbVars, schedVars, agentVars, toolVars, chatVars, sockVars, crudVars>>

\* The handler dies: `except` calls manager.disconnect (lines 63-67).
LocDie(ws) ==
    /\ Disconnect("location", ws, loc[ws].pair_id)
    /\ loc' = [loc EXCEPT ![ws].pc = "closed"]

\* The send of the replay completes, or raises.
LocReplayDone(ws, ok) ==
    /\ loc[ws].pc = "replay"
    /\ IF ok
       THEN /\ OtherTaskMayRun
            /\ received' = [received EXCEPT ![ws] = Append(@, loc[ws].replay)]
            /\ loc' = [loc EXCEPT ![ws].pc = "receive"]
            /\ UNCHANGED registryVars
       ELSE /\ LocDie(ws)
            /\ received' = received
    /\ UNCHANGED <<live_location, locNo, dbVars, schedVars, agentVars, toolVars, chatVars, sockVars, crudVars>>

\* receive_text raises WebSocketDisconnect: the client has gone.
LocClientGone(ws) ==
    /\ loc[ws].pc = "receive"
    /\ LocDie(ws)
    /\ UNCHANGED <<live_location, received, locNo, dbVars, schedVars, agentVars, toolVars, chatVars, sockVars, crudVars>>

\* A text that is not JSON arrives: json.loads raises (line 37).
LocReceiveMalformed(ws) ==
    /\ loc[ws].pc = "receive"
    /\ locNo < MaxUpdates
    /\ locNo' = locNo + 1
    /\ LocDie(ws)
    /\ UNCHANGED <<live_location, received, dbVars, schedVars, agentVars, toolVars, chatVars, sockVars, crudVars>>

\* A handler that relays the message of a caretaker as it does a patient's.
LocReceiveIgnored_relays(ws) ==
    /\ loc[ws].pc = "receive"
    /\ loc[ws].role # "patient"
    /\ bcast.pc = "idle"
    /\ tick.pc = "idle"
    /\ locNo < MaxUpdates
    /\ locNo' = locNo + 1
    /\ bcast' = StartBroadcast(active_connections, "location", loc[ws].pair_id, ws, "json")
    /\ loc' = [loc EXCEPT ![ws].pc = "broadcast", ![ws].data = Update(locNo + 1)]
    /\ UNCHANGED <<active_connections, accepted, joined, closed, live_location,
                   received, dbVars, schedVars, agentVars, toolVars, chatVars, sockVars, crudVars>>

\* A caretaker's message arrives: it is parsed and dropped (line 40).
LocReceiveIgnored(ws) ==
    /\ loc[ws].pc = "receive"
    /\ loc[ws].role # "patient"
    /\ OtherTaskMayRun
    /\ locNo < MaxUpdates
    /\ locNo' = locNo + 1
    /\ UNCHANGED <<loc, live_location, received, registryVars, dbVars, schedVars,
                   agentVars, toolVars, chatVars, sockVars, crudVars>>

\* A patient's update arrives: broadcast_json runs to its first send
\* (line 42).
LocReceiveUpdate(ws) ==
    /\ loc[ws].pc = "receive"
    /\ loc[ws].role = "patient"
    /\ bcast.pc = "idle"
    /\ tick.pc = "idle"
    /\ locNo < MaxUpdates
    /\ locNo' = locNo + 1
    /\ bcast' = StartBroadcast(active_connections, "location", loc[ws].pair_id, ws, "json")
    /\ loc' = [loc EXCEPT ![ws].pc = "broadcast", ![ws].data = Update(locNo + 1)]
    /\ UNCHANGED <<active_connections, accepted, joined, closed, live_location,
                   received, dbVars, schedVars, agentVars, toolVars, chatVars, sockVars, crudVars>>

\* The send of the replay to ws was called before the send in flight of a
\* broadcast (the handler of ws calls it with no suspension after
\* connect appended ws), and it is pending or has raised.
ReplayAhead(ws) ==
    \/ loc[ws].pc = "replay"
    \/ /\ loc[ws].pc = "closed"
       /\ loc[ws].replay # <<>>
       /\ loc[ws].replay \notin Elems(received[ws])

\* A send of the update completes, or raises and evicts the connection.  A
\* websocket is an ordered stream: the frame of a send is not delivered while
\* a send called earlier on the same websocket is pending, nor after one has
\* raised.
LocSendDone(ok) ==
    /\ bcast.mgr = "location"
    /\ bcast.pc = "sending"
    /\ ok => ~ReplayAhead(bcast.cur)
    /\ BroadcastSendDone(ok)
    /\ received' = IF ok THEN [received EXCEPT ![bcast.cur] =
                                  Append(@, loc[bcast.sender].data)]
                   ELSE received
    /\ UNCHANGED <<loc, live_location, locNo, dbVars, schedVars, agentVars, toolVars, chatVars, sockVars, crudVars>>

\* The broadcast has returned: the update is stored, unless the commit
\* raises (lines 45-61), and the handler waits for the next message.
LocPersist(dbOk) ==
    /\ bcast.mgr = "location"
    /\ BroadcastReturn
    /\ \E ws \in {bcast.sender} :
          /\ live_location' =
                 IF dbOk THEN persist_location(live_location, loc[ws].pair_id, loc[ws].data)
                 ELSE live_location
          /\ loc' = [loc EXCEPT ![ws].pc = "receive",
                                ![ws].persisted = IF dbOk THEN "ok" ELSE "failed"]
    /\ UNCHANGED <<received, locNo, dbVars, schedVars, agentVars, toolVars, chatVars, sockVars, crudVars>>

\* A handler of another channel starts (audio.py line 19, reminders.py line
\* 45, agent.py line 79): it connects and waits for a message.
OtherJoin(m, ws, k) ==
    /\ m # "location"
    /\ Connect(m, ws, k)
    /\ UNCHANGED <<locVars, dbVars, schedVars, agentVars, toolVars, chatVars, sockVars, crudVars>>

(***************************************************************************)
(* The plain chatbot API (app/chatbot.py): its own conversation_history    *)
(* and three endpoints, none of which suspends.                            *)
(***************************************************************************)
\* A request served and its answer.
Served(op, patient_id, status, messages) ==
    [op |-> op, patient_id |-> patient_id, status |-> status, messages |-> messages]

\* get_conversation_history: the dict after the call (the key is created on
\* a miss); the list returned is the value at patient_id.
get_conversation_history(convs, patient_id) ==
    IF patient_id \in DOMAIN convs THEN convs ELSE convs @@ (patient_id :> <<>>)

\* A clear that forgets only the last entry.
clear_conversation_drops_last(convs, patient_id) ==
    IF patient_id \in DOMAIN convs
    THEN [convs EXCEPT ![patient_id] = SubSeq(@, 1, Len(@) - 1)]
    ELSE convs

\* clear_conversation: lines 154-158.
clear_conversation(convs, patient_id) ==
    IF patient_id \in DOMAIN convs THEN [convs EXCEPT ![patient_id] = <<>>] ELSE convs

\* add_to_history: lines 79-91.
add_to_history(convs, patient_id, role, content) ==
    LET c1 == get_conversation_history(convs, patient_id)
        l  == Append(c1[patient_id], [role |-> role, content |-> content])
    IN  [c1 EXCEPT ![patient_id] =
            IF Len(l) > HistoryCap THEN LastN(l, HistoryCap) ELSE l]

\* POST /message: generate_response (lines 104-152) records the user message,
\* asks the oracle and records its text; when the oracle call raises, the
\* request ends with status 500 and the user message stays recorded.
ChatMessage(patient_id, ok) ==
    /\ Len(chatLog) < MaxChats
    /\ \E c1 \in {add_to_history(conversation_history, patient_id, "user",
                                 Message(Len(chatLog) + 1))} :
          conversation_history' =
              IF ok THEN add_to_history(c1, patient_id, "assistant", <<"Hello.">>)
              ELSE c1
    /\ chatLog' = Append(chatLog, Served("message", patient_id,
                                         IF ok THEN 200 ELSE 500, <<>>))
    /\ UNCHANGED <<registryVars, dbVars, schedVars, agentVars, toolVars, locVars, sockVars, crudVars>>

\* GET /history/{patient_id}: lines 215-220.
GetHistory(patient_id) ==
    /\ Len(chatLog) < MaxChats
    /\ \E c1 \in {get_conversation_history(conversation_history, patient_id)} :
          /\ conversation_history' = c1
          /\ chatLog' = Append(chatLog, Served("history", patient_id, 200,
                                               c1[patient_id]))
    /\ UNCHANGED <<registryVars, dbVars, schedVars, agentVars, toolVars, locVars, sockVars, crudVars>>

\* DELETE /history/{patient_id}: lines 233-238.
DeleteHistory(patient_id) ==
    /\ Len(chatLog) < MaxChats
    /\ conversation_history' = clear_conversation(conversation_history, patient_id)
    /\ chatLog' = Append(chatLog, Served("clear", patient_id, 200, <<>>))
    /\ UNCHANGED <<registryVars, dbVars, schedVars, agentVars, toolVars, locVars, sockVars, crudVars>>

(***************************************************************************)
(* The agent websocket (api/v1/chatbot/agent.py, ws_agent_chat).  A        *)
(* handler is the coroutine of one websocket: it joins the agent manager   *)
(* under its patient_id, then loops: receive a frame, run a turn, send the *)
(* answer to its own websocket with send_personal_message.                 *)
(***************************************************************************)
IdleSock ==
    [pc |-> "none", patient_id |-> "none", pair_id |-> "none", frame |-> 0,
     message |-> <<>>, context |-> <<>>, response |-> <<>>, gone |-> FALSE]

\* A frame as receive_text returns it: the text, what json.loads makes of it
\* ("object", another JSON "value", or "invalid" when it raises), and the
\* "message" member of the object (the default "" when it has none).
ObjectFrame(message) ==
    [data |-> <<"{message: ">> \o message \o <<"}">>, json |-> "object",
     message |-> message]

TextFrame(data, json) == [data |-> data, json |-> json, message |-> <<>>]

\* The frames a client may send as the n-th frame: a JSON object with or
\* without a message, then a text that is not JSON or an empty one, then a
\* JSON number or an object without a message.
FramesAt(n) ==
    IF n % 3 = 1 THEN {ObjectFrame(Message(n)), ObjectFrame(<<>>)}
    ELSE IF n % 3 = 2 THEN {TextFrame(Message(n), "invalid"), TextFrame(<<>>, "invalid")}
    ELSE {TextFrame(Str(n), "value"), ObjectFrame(<<>>)}

\* A parse that takes the text of every frame for the message.
user_message_raw(frame) == frame.data

\* Lines 85-90: payload.get("message", "") of a JSON object; the bare except
\* takes the text itself when json.loads or .get raises.
user_message(frame) ==
    IF frame.json = "object" THEN frame.message ELSE frame.data

\* Lines 113-117: the response handed to send_personal_message.
ResponseJson(t, text) ==
    [response |-> text, patient_id |-> t.patient_id, pair_id |-> t.pair_id]

\* A send_personal_message that lets the exception of send_text through.
send_personal_message_raises(reg, ok) == [raised |-> ~ok, reg |-> reg]

\* ConnectionManager.send_personal_message (websocket_manager.py lines
\* 32-37): the exception of send_text is logged; the registry is not used.
send_personal_message(reg, ok) == [raised |-> FALSE, reg |-> reg]

\* Lines 77-79: connect, then the first receive_text.
AgentJoin(ws, patient_id, pair_id) ==
    /\ Connect("agent", ws, patient_id)
    /\ agent_ws' = [agent_ws EXCEPT ![ws] =
           [IdleSock EXCEPT !.pc = "receive", !.patient_id = patient_id,
                            !.pair_id = pair_id]]
    /\ UNCHANGED <<agent_in, agent_out, dbVars, schedVars, agentVars, toolVars,
                   locVars, chatVars, crudVars>>

\* The client closes its end; the handler learns of it at its next
\* receive_text.
AgentClientCloses(ws) ==
    /\ agent_ws[ws].pc \in {"receive", "await"}
    /\ ~agent_ws[ws].gone
    /\ agent_ws' = [agent_ws EXCEPT ![ws].gone = TRUE]
    /\ UNCHANGED <<agent_in, agent_out, registryVars, dbVars, schedVars, agentVars,
                   toolVars, locVars, chatVars, crudVars>>

\* receive_text raises WebSocketDisconnect: lines 121-122.
AgentReceiveDisconnect(ws) ==
    /\ agent_ws[ws].pc = "receive"
    /\ agent_ws[ws].gone
    /\ Disconnect("agent", ws, agent_ws[ws].patient_id)
    /\ agent_ws' = [agent_ws EXCEPT ![ws].pc = "closed"]
    /\ UNCHANGED <<agent_in, agent_out, dbVars, schedVars, agentVars, toolVars,
                   locVars, chatVars, crudVars>>

\* A frame with no message arrives: `if not user_message: continue`
\* (lines 83-94).
AgentReceiveEmpty(ws) ==
    /\ agent_ws[ws].pc = "receive"
    /\ ~agent_ws[ws].gone
    /\ Len(agent_in) < MaxFrames
    /\ \E frame \in FramesAt(Len(agent_in) + 1) :
          /\ user_message(frame) = <<>>
          /\ agent_in' = Append(agent_in, [from |-> ws, frame |-> frame])
    /\ UNCHANGED <<agent_ws, agent_out, registryVars, dbVars, schedVars, agentVars,
                   toolVars, locVars, chatVars, crudVars>>

\* A frame with a message arrives: lines 83-108 and run_agent lines 66-90,
\* up to the await of llm.ainvoke.  history is the list fetched before the
\* user entry is appended to it, so it holds that entry.
AgentReceive(ws) ==
    /\ agent_ws[ws].pc = "receive"
    /\ ~agent_ws[ws].gone
    /\ Len(agent_in) < MaxFrames
    /\ Cardinality({w \in Conns : agent_ws[w].pc \in {"await", "send"}}) < MaxInFlight
    /\ \E frame \in FramesAt(Len(agent_in) + 1) :
       \E t \in {agent_ws[ws]} :
       \E c1 \in {get_agent_history(agent_conversations, t.patient_id)} :
       \E history \in {Append(c1[t.patient_id], Entry("user", user_message(frame)))} :
          /\ user_message(frame) # <<>>
          /\ agent_in' = Append(agent_in, [from |-> ws, frame |-> frame])
          /\ agent_conversations' =
                 add_to_agent_history(c1, t.patient_id, "user", user_message(frame))
          /\ appended' = [appended EXCEPT ![t.patient_id] =
                 Append(@, Entry("user", user_message(frame)))]
          /\ agent_ws' = [agent_ws EXCEPT ![ws] =
                 [t EXCEPT !.pc = "await", !.frame = Len(agent_in) + 1,
                           !.message = user_message(frame),
                           !.context = Context(history, user_message(frame))]]
    /\ UNCHANGED <<agent_out, http, wsTurn, turnNo, lastRun, legacy_conversations,
                   clears, registryVars, dbVars, schedVars, toolVars, locVars, chatVars, crudVars>>

\* llm.ainvoke has answered: run_agent lines 93-122, then agent.py lines
\* 111-119 up to the await of send_text.
AgentAnswered(ws, answer, now, dbOk) ==
    /\ agent_ws[ws].pc = "await"
    /\ \E t \in {agent_ws[ws]} :
       \E out \in {run_agent(t.pair_id, answer, reminders, reminder_seq, alerts, now, dbOk)} :
          /\ agent_conversations' =
                 add_to_agent_history(agent_conversations, t.patient_id,
                                      "assistant", out.response)
          /\ appended' = [appended EXCEPT ![t.patient_id] =
                 Append(@, Entry("assistant", out.response))]
          /\ reminders' = out.reminders
          /\ reminder_seq' = out.reminder_seq
          /\ alerts' = out.alerts
          /\ lastRun' = [pair_id |-> t.pair_id, proposed |-> answer.tool_calls,
                         call |-> out.call, response |-> out.response,
                         raised |-> answer.raises, content |-> answer.content]
          /\ agent_ws' = [agent_ws EXCEPT ![ws] =
                 [t EXCEPT !.pc = "send", !.response = out.response]]
    /\ UNCHANGED <<agent_in, agent_out, http, wsTurn, turnNo, pairs, users,
                   legacy_conversations, clears, registryVars, schedVars, toolVars,
                   locVars, chatVars, crudVars>>

\* send_text to the handler's own websocket completes, or raises: the
\* handler goes back to receive_text (lines 83, 119); an exception that
\* reached it would end it in `except Exception` (lines 123-125).
AgentSendDone(ws, ok) ==
    /\ agent_ws[ws].pc = "send"
    /\ \E t \in {agent_ws[ws]} :
       \E r \in {send_personal_message(active_connections["agent"], ok)} :
          /\ agent_out' = Append(agent_out,
                 [to |-> ws, frame |-> t.frame, ok |-> ok, raised |-> r.raised,
                  json |-> ResponseJson(t, t.response)])
          /\ IF r.raised
             THEN /\ Disconnect("agent", ws, t.patient_id)
                  /\ agent_ws' = [agent_ws EXCEPT ![ws].pc = "closed"]
             ELSE /\ active_connections' =
                         [active_connections EXCEPT !["agent"] = r.reg]
                  /\ agent_ws' = [agent_ws EXCEPT ![ws].pc = "receive"]
                  /\ UNCHANGED <<accepted, joined, closed, bcast>>
    /\ UNCHANGED <<agent_in, dbVars, schedVars, agentVars, toolVars, locVars, chatVars, crudVars>>
(***************************************************************************)
(* The reminders API (api/v1/reminders/reminders.py): POST /, PUT /{id}    *)
(* and DELETE /{id}.  Each handler commits, then awaits the broadcast of   *)
(* the event to the clients of the reminder's pair, then answers.          *)
(***************************************************************************)
NoEvent == [type |-> "none", id |-> 0]

IdleCrud == [pc |-> "idle", n |-> 0, op |-> "none", status |-> 0, event |-> NoEvent]

\* db.query(Reminder).filter(Reminder.id == reminder_id).first(): the index
\* of the row, 0 for None.
ReminderById(rows, reminder_id) ==
    IF \E i \in 1 .. Len(rows) : rows[i].id = reminder_id
    THEN CHOOSE i \in 1 .. Len(rows) : rows[i].id = reminder_id
    ELSE 0

\* parse_reminder_datetime (lines 24-30) does not raise.
ReminderDatetimeOk(date, time) ==
    strptime(date \o <<" ">> \o time, Formats[1]) # NoDate

\* The request bodies tried: a reminder in the stored format for each pair,
\* one whose day is written without padding, and one whose date is not in
\* that format.
PostInputs ==
    { [pair_id |-> k, title |-> <<"W", "a", "l", "k">>, date |-> d,
       time |-> strftime_time(DateTimeAt(180))] :
          k \in AgentPairIds,
          d \in {strftime_date(DateTimeAt(180)), unpadded_date(DateTimeAt(180)),
                 <<"tomorrow">>} }

\* The members a ReminderUpdate carries (the others are None).
PutInputs ==
    { [title |-> <<"W", "a", "l", "k">>],
      [time |-> strftime_time(DateTimeAt(240))],
      [time |-> unpadded_time(DateTimeAt(3720))],
      [time |-> <<"5", " ", "PM">>] }

\* Lines 152-157: the members given replace the row's.
Updated(row, upd) ==
    [f \in DOMAIN row |-> IF f \in DOMAIN upd THEN upd[f] ELSE row[f]]

\* A request is answered without a commit.
CrudRefused(op, code) ==
    /\ crud' = [pc |-> "idle", n |-> crud.n + 1, op |-> op, status |-> code,
                event |-> NoEvent]
    /\ UNCHANGED <<registryVars, dbVars>>

\* The commit has succeeded: the table is replaced and broadcast_json runs
\* to its first send.
CrudCommitted(op, rows, seq, pair_id, event) ==
    /\ reminders' = rows
    /\ reminder_seq' = seq
    /\ bcast' = StartBroadcast(active_connections, "reminder", pair_id, NoConn, "json")
    /\ crud' = [pc |-> "broadcast", n |-> crud.n + 1, op |-> op, status |-> 0,
                event |-> event]
    /\ UNCHANGED <<active_connections, accepted, joined, closed, pairs, users, alerts>>

\* A request may start when no broadcast is running.
CrudMayStart ==
    /\ crud.pc = "idle"
    /\ crud.n < MaxCrud
    /\ bcast.pc = "idle"
    /\ tick.pc = "idle"

\* POST / (create_reminder, lines 58-96) up to the first send.
PostReminder(reminder, dbOk) ==
    /\ CrudMayStart
    /\ IF ~ReminderDatetimeOk(reminder.date, reminder.time) THEN CrudRefused("POST", 400)
       ELSE IF ~dbOk THEN CrudRefused("POST", 500)
       ELSE CrudCommitted("POST",
                Append(reminders, [id |-> reminder_seq + 1, pair_id |-> reminder.pair_id,
                                   title |-> reminder.title, date |-> reminder.date,
                                   time |-> reminder.time]),
                reminder_seq + 1, reminder.pair_id,
                [type |-> "ADD", id |-> reminder_seq + 1])
    /\ UNCHANGED <<schedVars, agentVars, toolVars, locVars, chatVars, sockVars>>

\* PUT /{reminder_id} (update_reminder, lines 135-175) up to the first send.
PutReminder(reminder_id, upd, dbOk) ==
    /\ CrudMayStart
    /\ \E i \in {ReminderById(reminders, reminder_id)} :
          IF i = 0 THEN CrudRefused("PUT", 404)
          ELSE IF /\ DOMAIN upd \cap {"date", "time"} # {}
                  /\ ~ReminderDatetimeOk(Updated(reminders[i], upd).date,
                                         Updated(reminders[i], upd).time)
          THEN CrudRefused("PUT", 400)
          ELSE IF ~dbOk THEN CrudRefused("PUT", 500)
          ELSE CrudCommitted("PUT", [reminders EXCEPT ![i] = Updated(@, upd)],
                             reminder_seq, reminders[i].pair_id,
                             [type |-> "UPDATE", id |-> reminder_id])
    /\ UNCHANGED <<schedVars, agentVars, toolVars, locVars, chatVars, sockVars>>

\* DELETE /{reminder_id} (delete_reminder, lines 177-201) up to the first send.
DelReminder(reminder_id, dbOk) ==
    /\ CrudMayStart
    /\ \E i \in {ReminderById(reminders, reminder_id)} :
          IF i = 0 THEN CrudRefused("DELETE", 404)
          ELSE IF ~dbOk THEN CrudRefused("DELETE", 500)
          ELSE CrudCommitted("DELETE",
                             SelectSeq(reminders, LAMBDA r : r.id # reminder_id),
                             reminder_seq, reminders[i].pair_id,
                             [type |-> "DELETE", id |-> reminder_id])
    /\ UNCHANGED <<schedVars, agentVars, toolVars, locVars, chatVars, sockVars>>

\* A send of the event completes, or raises and evicts the connection.
CrudSendDone(ok) ==
    /\ crud.pc = "broadcast"
    /\ BroadcastSendDone(ok)
    /\ UNCHANGED <<crud, dbVars, schedVars, agentVars, toolVars, locVars, chatVars,
                   sockVars>>

\* The broadcast has returned: the handler answers.
CrudReturn ==
    /\ crud.pc = "broadcast"
    /\ BroadcastReturn
    /\ crud' = [crud EXCEPT !.pc = "idle",
                            !.status = IF crud.op = "POST" THEN 201 ELSE 200]
    /\ UNCHANGED <<dbVars, schedVars, agentVars, toolVars, locVars, chatVars, sockVars>>
(***************************************************************************)
(* Specifications.                                                         *)
(***************************************************************************)
RegistryInit ==
    /\ active_connections = [m \in Managers |-> <<>>]
    /\ accepted = {}
    /\ joined = [ws \in Conns |-> <<>>]
    /\ closed = {}
    /\ bcast = IdleBcast

SchedulerInit ==
    /\ nextRun = FirstRun
    /\ tickNo = 0
    /\ tick = IdleTick
    /\ fireCount = [i \in 1 .. MaxReminders |-> 0]

\* No patient has talked to the agent.
AgentInit ==
    /\ agent_conversations = <<>>
    /\ appended = [u \in PatientIds |-> <<>>]
    /\ http = [s \in 1 .. MaxHttp |-> IdleTurn]
    /\ wsTurn = IdleTurn
    /\ turnNo = 0
    /\ lastRun = NoRun
    /\ legacy_conversations = <<>>
    /\ clears = [u \in PatientIds |-> 0]

\* No tool has been called.
ToolInit == toolRun = NoToolCall

\* No location handler has started and no location is stored.
LocInit ==
    /\ live_location = <<>>
    /\ received = [ws \in Conns |-> <<>>]
    /\ loc = [ws \in Conns |-> IdleLoc]
    /\ locNo = 0

\* The plain chatbot has served no request: conversation_history = {}.
ChatInit ==
    /\ conversation_history = <<>>
    /\ chatLog = <<>>

\* No agent websocket has connected.
SockInit ==
    /\ agent_ws = [ws \in Conns |-> IdleSock]
    /\ agent_in = <<>>
    /\ agent_out = <<>>

\* The reminders API has served no request.
CrudInit == crud = IdleCrud

\* The ConnectionManager alone: the database is empty and the scheduler
\* does not run.
InitRegistry ==
    /\ RegistryInit
    /\ SchedulerInit
    /\ AgentInit
    /\ ToolInit
    /\ LocInit
    /\ ChatInit
    /\ SockInit
    /\ CrudInit
    /\ reminders = <<>>
    /\ pairs = <<>>
    /\ users = <<>>
    /\ alerts = <<>>
    /\ reminder_seq = 0

RegistryNext ==
    /\ \/ \E m \in Managers, ws \in Conns, k \in Keys : Connect(m, ws, k)
       \/ \E m \in Managers, ws \in Conns, k \in Keys : Disconnect(m, ws, k)
       \/ \E m \in Managers, k \in Keys, s \in Conns \cup {NoConn}, kind \in Kinds :
             BroadcastStart(m, k, s, kind)
       \/ \E ok \in BOOLEAN : BroadcastSendDone(ok)
       \/ BroadcastReturn
    /\ UNCHANGED <<dbVars, schedVars, agentVars, toolVars, locVars, chatVars, sockVars, crudVars>>

SpecRegistry == InitRegistry /\ [][RegistryNext]_vars

\* Every websocket has joined the reminders channel of pair p1 (ws_reminders).
RemindersJoined ==
    /\ active_connections =
           [m \in Managers |-> IF m = "reminder"
                               THEN ("p1" :> [i \in 1 .. MaxConns |-> i])
                               ELSE <<>>]
    /\ accepted = Conns
    /\ joined = [ws \in Conns |-> <<"reminder", "p1">>]
    /\ closed = {}
    /\ bcast = IdleBcast

\* The scheduler with the clients of the reminders channel.
InitScheduler ==
    /\ RemindersJoined
    /\ SchedulerInit
    /\ AgentInit
    /\ ToolInit
    /\ LocInit
    /\ ChatInit
    /\ SockInit
    /\ CrudInit
    /\ reminders \in ReminderTables
    /\ pairs = PairsTable
    /\ users = UsersTable
    /\ alerts = <<>>
    /\ reminder_seq = MaxReminders

SchedulerNext ==
    /\ \/ \E j \in 0 .. MaxJitter, dbOk \in BOOLEAN : TickStart(j, dbOk)
       \/ \E dbFail \in {"none", "pair", "patient", "caretaker"}, pushOk \in BOOLEAN :
             ProcessDue(dbFail, pushOk)
       \/ TickResume
       \/ TickReturn
       \/ \E ok \in BOOLEAN : BroadcastSendDone(ok) /\ UNCHANGED <<dbVars, schedVars>>
    /\ UNCHANGED <<agentVars, toolVars, locVars, chatVars, sockVars, crudVars>>

SpecScheduler == InitScheduler /\ [][SchedulerNext]_vars


\* The reminders the agent's tools find: two of pair p1, due in the second
\* and in the third minute of the run, and one of pair p2.
AgentReminders ==
    << [id |-> 1, pair_id |-> "p1", title |-> <<"P", "i", "l", "l", "s">>,
        date |-> strftime_date(DateTimeAt(60)), time |-> strftime_time(DateTimeAt(60))],
       [id |-> 2, pair_id |-> "p1", title |-> <<"p", "i", "l", "l", " ", "b", "o", "x">>,
        date |-> strftime_date(DateTimeAt(120)), time |-> strftime_time(DateTimeAt(120))],
       [id |-> 3, pair_id |-> "p2", title |-> <<"P", "i", "l", "l", "s">>,
        date |-> unpadded_date(DateTimeAt(120)), time |-> unpadded_time(DateTimeAt(120))] >>

\* The agent websocket of patient u1 is connected (ws_agent_chat line 79).
AgentJoined ==
    /\ active_connections =
           [m \in Managers |-> IF m = "agent" THEN ("u1" :> <<1>>) ELSE <<>>]
    /\ accepted = {1}
    /\ joined = [c \in Conns |-> IF c = 1 THEN <<"agent", "u1">> ELSE <<>>]
    /\ closed = {}
    /\ bcast = IdleBcast

\* The dict of the legacy module: untouched, or holding a conversation of
\* u1 held through the legacy routes (routes/agent.py).
LegacyStores == {<<>>, ("u1" :> EarlierEntries(1))}

\* Patient u1 has had some earlier turns, and the websocket of u1 was opened
\* with one of the pair ids.
AgentStarted ==
    /\ AgentJoined
    /\ SchedulerInit
    /\ reminders = AgentReminders
    /\ pairs = PairsTable
    /\ users = UsersTable
    /\ alerts = <<>>
    /\ reminder_seq = Len(AgentReminders)
    /\ \E n \in EarlierTurns :
          /\ agent_conversations = AddAll(<<>>, "u1", EarlierEntries(n))
          /\ appended = [u \in PatientIds |-> IF u = "u1" THEN EarlierEntries(n) ELSE <<>>]
    /\ http = [s \in 1 .. MaxHttp |-> IdleTurn]
    /\ \E p \in AgentPairIds : wsTurn = [IdleTurn EXCEPT !.pair_id = p]
    /\ turnNo = 0
    /\ lastRun = NoRun
    /\ clears = [u \in PatientIds |-> 0]
    /\ ToolInit
    /\ LocInit
    /\ ChatInit
    /\ SockInit
    /\ CrudInit

\* The agent, the legacy routes never used.
InitAgent == AgentStarted /\ legacy_conversations = <<>>

\* The agent, whatever the legacy routes did before.
InitAgentReset == AgentStarted /\ legacy_conversations \in LegacyStores

\* Conversations: up to MaxTurns messages, answered with text, with an
\* exception or with a tool call.
AgentNext ==
    \/ \E s \in 1 .. MaxHttp, u \in PatientIds, p \in AgentPairIds :
          HttpStart(s, u, p, MaxTurns)
    \/ \E s \in 1 .. MaxHttp, a \in PlainAnswers, now \in AgentNows, dbOk \in BOOLEAN :
          HttpDone(s, a, now, dbOk)
    \/ WsStart(MaxTurns)
    \/ \E a \in PlainAnswers, now \in AgentNows, dbOk \in BOOLEAN : WsDone(a, now, dbOk)

SpecAgent == InitAgent /\ [][AgentNext]_vars

\* Tool use: up to MaxToolTurns messages, answered in every way the oracle may.
AgentToolsNext ==
    \/ \E s \in 1 .. MaxHttp, u \in PatientIds, p \in AgentPairIds :
          HttpStart(s, u, p, MaxToolTurns)
    \/ \E s \in 1 .. MaxHttp, a \in OracleAnswers, now \in AgentNows, dbOk \in BOOLEAN :
          HttpDone(s, a, now, dbOk)
    \/ WsStart(MaxToolTurns)
    \/ \E a \in OracleAnswers, now \in AgentNows, dbOk \in BOOLEAN : WsDone(a, now, dbOk)

SpecAgentTools == InitAgent /\ [][AgentToolsNext]_vars

\* The reminders of pair p1 stored latest first, as after creating them in
\* that order.
LatestFirstReminders ==
    << [id |-> 1, pair_id |-> "p1", title |-> <<"W", "a", "l", "k">>,
        date |-> strftime_date(DateTimeAt(180)), time |-> strftime_time(DateTimeAt(180))],
       [id |-> 2, pair_id |-> "p1", title |-> <<"P", "i", "l", "l", "s">>,
        date |-> strftime_date(DateTimeAt(120)), time |-> strftime_time(DateTimeAt(120))] >>

ToolTables == {<<>>, AgentReminders, LatestFirstReminders}

\* The tools alone, against a reminders table some earlier calls have left.
InitTools ==
    /\ RegistryInit
    /\ SchedulerInit
    /\ AgentInit
    /\ ToolInit
    /\ LocInit
    /\ ChatInit
    /\ SockInit
    /\ CrudInit
    /\ reminders \in ToolTables
    /\ reminder_seq = Len(reminders)
    /\ pairs = PairsTable
    /\ users = UsersTable
    /\ alerts = <<>>

ToolsNext ==
    \/ \E args \in CreateArgs, now \in AgentNows, dbOk \in BOOLEAN :
          CreateReminder(args, now, dbOk)
    \/ \E k \in AgentPairIds, now \in AgentNows, dbOk \in BOOLEAN :
          ListReminders(k, now, dbOk)
    \/ \E k \in AgentPairIds, now \in AgentNows, dbOk \in BOOLEAN :
          DeleteReminder(k, <<"p", "i", "l", "l">>, now, dbOk)
    \/ \E k \in AgentPairIds, now \in AgentNows, dbOk \in BOOLEAN :
          SendEmergencyAlert(k, <<"fall">>, now, dbOk)

SpecTools == InitTools /\ [][ToolsNext]_vars

\* Conversations with resets of the history in between.
AgentResetNext ==
    \/ \E s \in 1 .. MaxHttp, u \in PatientIds, p \in AgentPairIds :
          HttpStart(s, u, p, MaxResetTurns)
    \/ \E s \in 1 .. MaxHttp, a \in PlainAnswers, now \in AgentNows, dbOk \in BOOLEAN :
          HttpDone(s, a, now, dbOk)
    \/ WsStart(MaxResetTurns)
    \/ \E a \in PlainAnswers, now \in AgentNows, dbOk \in BOOLEAN : WsDone(a, now, dbOk)
    \/ \E u \in PatientIds : ClearAgentHistory(u)

SpecAgentReset == InitAgentReset /\ [][AgentResetNext]_vars

\* The location channel with the websockets conns: none has connected and
\* no location is stored.
LocationStart(conns) ==
    /\ active_connections = [m \in Managers |-> <<>>]
    /\ accepted = {}
    /\ joined = [ws \in conns |-> <<>>]
    /\ closed = {}
    /\ bcast = IdleBcast
    /\ SchedulerInit
    /\ AgentInit
    /\ ToolInit
    /\ live_location = <<>>
    /\ received = [ws \in conns |-> <<>>]
    /\ loc = [ws \in conns |-> IdleLoc]
    /\ locNo = 0
    /\ ChatInit
    /\ SockInit
    /\ CrudInit
    /\ reminders = <<>>
    /\ pairs = PairsTable
    /\ users = UsersTable
    /\ alerts = <<>>
    /\ reminder_seq = 0

\* Websockets are numbered in the order in which they connect.
NextConn(conns) == {Cardinality(accepted) + 1} \cap conns

LocationSteps(conns) ==
    \/ \E ws \in NextConn(conns), k \in Keys, role \in Roles : LocJoin(ws, k, role)
    \/ \E ws \in conns, ok \in BOOLEAN : LocReplayDone(ws, ok)
    \/ \E ws \in conns : LocClientGone(ws)
    \/ \E ws \in conns : LocReceiveMalformed(ws)
    \/ \E ws \in conns : LocReceiveIgnored(ws)
    \/ \E ws \in conns : LocReceiveUpdate(ws)
    \/ \E ok \in BOOLEAN : LocSendDone(ok)
    \/ \E dbOk \in BOOLEAN : LocPersist(dbOk)
    \/ \E m \in Managers, ws \in NextConn(conns), k \in Keys : OtherJoin(m, ws, k)

\* Joining the channels.
InitLocation == LocationStart(Conns)
LocationNext == LocationSteps(Conns)
SpecLocation == InitLocation /\ [][LocationNext]_vars

\* Relaying a patient's updates to several caretakers.
LocConns == 1 .. MaxLocConns
InitLocationRelay == LocationStart(LocConns)
LocationRelayNext == LocationSteps(LocConns)
SpecLocationRelay == InitLocationRelay /\ [][LocationRelayNext]_vars

\* The plain chatbot API alone.
InitChat ==
    /\ RegistryInit
    /\ SchedulerInit
    /\ AgentInit
    /\ ToolInit
    /\ LocInit
    /\ ChatInit
    /\ SockInit
    /\ CrudInit
    /\ reminders = <<>>
    /\ reminder_seq = 0
    /\ pairs = PairsTable
    /\ users = UsersTable
    /\ alerts = <<>>

ChatNext ==
    \/ \E u \in PatientIds, ok \in BOOLEAN : ChatMessage(u, ok)
    \/ \E u \in PatientIds : GetHistory(u)
    \/ \E u \in PatientIds : DeleteHistory(u)

SpecChat == InitChat /\ [][ChatNext]_vars

\* The agent websockets of patient u1 (several devices) beside the
\* reminders channel of the pair: no patient has talked to the agent yet.
InitAgentSocket ==
    /\ RegistryInit
    /\ SchedulerInit
    /\ AgentInit
    /\ ToolInit
    /\ LocInit
    /\ ChatInit
    /\ SockInit
    /\ CrudInit
    /\ reminders = AgentReminders
    /\ reminder_seq = Len(AgentReminders)
    /\ pairs = PairsTable
    /\ users = UsersTable
    /\ alerts = <<>>

\* ws_reminders (reminders.py lines 41-53): the handler connects and waits.
RemindersJoin(ws, k) ==
    /\ Connect("reminder", ws, k)
    /\ UNCHANGED <<dbVars, schedVars, agentVars, toolVars, locVars, chatVars, sockVars, crudVars>>

\* A reminder event is broadcast, and its sends complete or raise.
RemindersBroadcast ==
    /\ \/ BroadcastStart("reminder", "p1", NoConn, "json")
       \/ \E ok \in BOOLEAN : BroadcastSendDone(ok)
       \/ BroadcastReturn
    /\ UNCHANGED <<dbVars, schedVars, agentVars, toolVars, locVars, chatVars, sockVars, crudVars>>

\* The oracle answers with text or asks for delete_reminder.
SocketAnswers == {Answer(<<>>, <<"Hello.">>), Answer(<<DeleteCall>>, <<>>)}

AgentSocketNext ==
    \/ \E ws \in NextConn(Conns) : AgentJoin(ws, "u1", "p1")
    \/ \E ws \in Conns : AgentClientCloses(ws)
    \/ \E ws \in Conns : AgentReceiveDisconnect(ws)
    \/ \E ws \in Conns : AgentReceiveEmpty(ws)
    \/ \E ws \in Conns : AgentReceive(ws)
    \/ \E ws \in Conns, a \in SocketAnswers : AgentAnswered(ws, a, 90, TRUE)
    \/ \E ws \in Conns, ok \in BOOLEAN : AgentSendDone(ws, ok)

SpecAgentSocket == InitAgentSocket /\ [][AgentSocketNext]_vars

\* A client of the reminders channel leaves (reminders.py lines 50-53).
RemindersLeave(ws) ==
    /\ Disconnect("reminder", ws, "p1")
    /\ UNCHANGED <<dbVars, schedVars, agentVars, toolVars, locVars, chatVars, sockVars, crudVars>>

\* Sends that may fail: the answers of the agent websockets to their own
\* clients, and the broadcasts of reminder events to the clients of the
\* pair.
TransportNext ==
    \/ \E ws \in NextConn(Conns) : AgentJoin(ws, "u1", "p1")
    \/ \E ws \in Conns : AgentReceive(ws)
    \/ \E ws \in Conns : AgentAnswered(ws, Answer(<<>>, <<"Hello.">>), 90, TRUE)
    \/ \E ws \in Conns, ok \in BOOLEAN : AgentSendDone(ws, ok)
    \/ \E ws \in NextConn(Conns) : RemindersJoin(ws, "p1")
    \/ \E ws \in Conns : RemindersLeave(ws)
    \/ RemindersBroadcast

SpecTransport == InitAgentSocket /\ [][TransportNext]_vars

\* The reminders API and the agent's tools with the clients of the
\* reminders channel of pair p1.
InitReminderEvents ==
    /\ RemindersJoined
    /\ SchedulerInit
    /\ AgentInit
    /\ ToolInit
    /\ LocInit
    /\ ChatInit
    /\ SockInit
    /\ CrudInit
    /\ reminders = AgentReminders
    /\ reminder_seq = Len(AgentReminders)
    /\ pairs = PairsTable
    /\ users = UsersTable
    /\ alerts = <<>>

\* The agent creates a reminder with a date and time that parse.
EventCreateArgs == { a \in CreateArgs : a.time = <<"1", "2", ":", "0", "1", " ", "AM">> }

ReminderEventsNext ==
    \/ \E reminder \in PostInputs, dbOk \in BOOLEAN : PostReminder(reminder, dbOk)
    \/ \E id \in 1 .. Len(AgentReminders) + 1, upd \in PutInputs, dbOk \in BOOLEAN :
          PutReminder(id, upd, dbOk)
    \/ \E id \in 1 .. Len(AgentReminders) + 1, dbOk \in BOOLEAN : DelReminder(id, dbOk)
    \/ \E ok \in BOOLEAN : CrudSendDone(ok)
    \/ CrudReturn
    \/ \E args \in EventCreateArgs : CreateReminder(args, 90, TRUE)
    \/ \E k \in AgentPairIds : DeleteReminder(k, <<"p", "i", "l", "l">>, 90, TRUE)

SpecReminderEvents == InitReminderEvents /\ [][ReminderEventsNext]_vars

\* The scheduler while clients of the reminders channel leave.
TickClientsNext ==
    \/ SchedulerNext
    \/ \E ws \in Conns : RemindersLeave(ws)

SpecTickClients == InitScheduler /\ [][TickClientsNext]_vars
(***************************************************************************)
(* Properties of the ConnectionManager.                                    *)
(***************************************************************************)
\* The connections registered under key k of manager m.
Registered(m, k) == Elems(Lookup(active_connections[m], k))

\* C1: a completed broadcast to key K excluding c has sent the payload to
\* every connection registered under K (from the start of the broadcast to
\* its return) other than c, has not sent it to c, and has not sent it to a
\* connection that joined under another key or another manager; the order
\* of delivery is irrelevant (only the set of receivers is compared).
C1_BroadcastReachesAllButExcluded ==
    bcast.pc = "done" =>
        /\ \A c \in Elems(bcast.startList) \cap Registered(bcast.mgr, bcast.key) :
               c # bcast.sender => c \in Elems(bcast.delivered)
        /\ bcast.sender \notin Elems(bcast.delivered)
        /\ \A c \in Elems(bcast.delivered) : joined[c] = <<bcast.mgr, bcast.key>>

\* A step in which disconnect(ws, k) is called on manager m: by the handler
\* of ws when it terminates, or by a broadcast whose send to ws raised.
DisconnectCalled(m, ws, k) ==
    \/ Disconnect(m, ws, k)
    \/ /\ bcast.pc = "sending" /\ bcast.mgr = m /\ bcast.cur = ws /\ bcast.key = k
       /\ BroadcastSendDone(FALSE)

\* C2: disconnect is idempotent.  Whenever disconnect(ws, K) is called on a
\* manager, it does not raise and leaves every other key and every other
\* manager as they were, and a second disconnect(ws, K) then does not raise
\* and changes nothing; disconnect(ws, K) for a connection that is not
\* registered under K (already removed, or never registered) or for a key
\* that does not exist does not raise and changes nothing.
C2_DisconnectIdempotent ==
    [][/\ \A m \in Managers, ws \in Conns, k \in Keys :
            DisconnectCalled(m, ws, k) =>
              LET first  == disconnect(active_connections[m], ws, k)
                  after  == active_connections'[m]
                  second == disconnect(after, ws, k)
              IN  /\ ~first.raised
                  /\ ~second.raised
                  /\ second.reg = after
                  /\ \A k2 \in Keys \ {k} :
                        /\ (k2 \in DOMAIN after) = (k2 \in DOMAIN active_connections[m])
                        /\ Lookup(after, k2) = Lookup(active_connections[m], k2)
                  /\ \A m2 \in Managers \ {m} :
                        active_connections'[m2] = active_connections[m2]
       /\ \A m \in Managers, ws \in Conns, k \in Keys :
            ws \notin Registered(m, k) =>
              disconnect(active_connections[m], ws, k) =
                  [raised |-> FALSE, reg |-> active_connections[m]]]_vars

\* C2 witness: disconnect has been called twice for one connection (by its
\* handler and by a broadcast whose send to it failed) while a connection
\* of another key of the same manager stays registered.
C2_Witness ==
    \E ws \in closed, ws2 \in accepted :
        /\ bcast.pc = "done"
        /\ ws \in Elems(bcast.evicted)
        /\ joined[ws2][1] = joined[ws][1]
        /\ joined[ws2][2] # joined[ws][2]
        /\ ws2 \in Registered(joined[ws2][1], joined[ws2][2])

\* C3: no key of any manager maps to an empty connection list.
C3_NoEmptyKey ==
    \A m \in Managers : \A k \in DOMAIN active_connections[m] :
        active_connections[m][k] # <<>>

\* C3 witness: the only connection of a key has been removed (by disconnect
\* or by a send-failure eviction) and the key is gone from the dict.
C3_Witness ==
    \E ws \in accepted :
        /\ joined[ws][2] \notin DOMAIN active_connections[joined[ws][1]]
        /\ bcast.pc = "done" /\ bcast.startList = <<ws>> /\ bcast.delivered = <<>>


\* A step of an operation on manager m: a connect, a disconnect, the start
\* of a broadcast, or a send of a broadcast (with its eviction on failure).
OperationOn(m) ==
    \/ \E ws \in Conns, k \in Keys : Connect(m, ws, k)
    \/ \E ws \in Conns, k \in Keys : Disconnect(m, ws, k)
    \/ \E k \in Keys, s \in Conns \cup {NoConn}, kind \in Kinds :
          BroadcastStart(m, k, s, kind)
    \/ bcast.mgr = m /\ \E ok \in BOOLEAN : BroadcastSendDone(ok)

\* C19: the four categories use independent registries.  A connect, a
\* disconnect, a broadcast or a send-failure eviction on one manager leaves
\* the connection sets of the other three as they were, and a broadcast on
\* one manager is never delivered to a connection registered with another
\* manager only, even under the same key.
C19_RegistriesIndependent ==
    /\ [][\A m \in Managers :
             OperationOn(m) =>
                 \A m2 \in Managers \ {m} :
                     active_connections'[m2] = active_connections[m2]]_vars
    /\ [](\A c \in Elems(bcast.delivered) \cup Elems(bcast.evicted) :
             joined[c][1] = bcast.mgr)

\* C19 witness: a broadcast under a key has returned after a delivery or an
\* eviction while a connection registered under the same key with another
\* manager got nothing and is still registered there.
C19_Witness ==
    /\ bcast.pc = "done"
    /\ bcast.delivered \o bcast.evicted # <<>>
    /\ \E c \in accepted \ closed :
          /\ joined[c][2] = bcast.key
          /\ joined[c][1] # bcast.mgr
          /\ c \notin Elems(bcast.delivered) \cup Elems(bcast.evicted)
          /\ c \in Registered(joined[c][1], bcast.key)

\* How many times the broadcast in flight has sent its payload to c.
TimesDelivered(c) ==
    Cardinality({ i \in 1 .. Len(bcast.delivered) : bcast.delivered[i] = c })

\* C22: a broadcast behaves as if it iterated a snapshot of the key's
\* connection list.  No connection is ever sent the payload twice, and when
\* the broadcast returns, every connection that was registered under the key
\* at its start and still is, other than the excluded one, has been sent it
\* exactly once, whatever send failed and whoever joined or left meanwhile.
C22_BroadcastAsSnapshot ==
    /\ \A c \in Conns : TimesDelivered(c) <= 1
    /\ bcast.pc = "done" =>
          \A c \in Elems(bcast.startList) \cap Registered(bcast.mgr, bcast.key) :
              c # bcast.sender => TimesDelivered(c) = 1
(***************************************************************************)
(* Properties of the reminder scheduler.                                   *)
(***************************************************************************)
ReminderIds == 1 .. MaxReminders

\* The row's stored strings equal the tick's formatted now.
Matches(i) == reminders[i].date = tick.date /\ reminders[i].time = tick.time

\* The wall-clock minute (since Epoch) at time t.
MinuteOf(t) == t \div 60

\* The row's strings denote minute m: they parse, with
\* strptime("%d %b %Y %I:%M %p"), to that minute.
Denotes(i, m) ==
    /\ reminders[i].date \in {strftime_date(DateTimeAt(60 * m)),
                              unpadded_date(DateTimeAt(60 * m))}
    /\ reminders[i].time \in {strftime_time(DateTimeAt(60 * m)),
                              unpadded_time(DateTimeAt(60 * m))}

\* The pushes of the current tick for reminder i.
PushesFor(i) == SelectSeq(tick.pushes, LAMBDA p : p.rid = i)

\* The stored device tokens of the two linked parties of a pair id.
ExpectedTokens(p) ==
    IF p \notin DOMAIN pairs THEN {}
    ELSE {users[u].fcm_token :
            u \in {v \in {pairs[p].patient_user_id, pairs[p].caretaker_user_id} :
                     v # NoUser /\ v \in DOMAIN users
                     /\ users[v].fcm_token # NoToken}}

\* C4: a persisted reminder fires exactly once: it is processed only by a
\* tick whose formatted now equals its strings, and by no more than one tick.
C4_FiresExactlyOnce ==
    /\ \A i \in Elems(tick.attempted) : Matches(i)
    /\ \A i \in ReminderIds : fireCount[i] <= 1

\* C5 (as claimed): in every tick a row is processed if and only if its date
\* and time strings equal now's formatted strings; a tick with no such row
\* sends no push and no EXPIRED event; a row whose minute has passed is not
\* processed.
C5_ProcessedIffStringsMatch ==
    tick.pc = "done" =>
        /\ \A i \in ReminderIds : (i \in Elems(tick.attempted)) <=> Matches(i)
        /\ (\A i \in ReminderIds : ~Matches(i)) =>
               tick.pushes = <<>> /\ tick.expired = <<>>
        /\ \A i \in ReminderIds : \A m \in 0 .. MinuteOf(tick.now) - 1 :
               Denotes(i, m) => i \notin Elems(tick.attempted)

\* C5 (amended): in a tick whose select of the due rows succeeds, a row is
\* processed if and only if its date and time strings equal now's formatted
\* strings, and in a tick whose select raises no row is processed; a tick
\* with no matching row sends no push and no EXPIRED event; a row whose
\* minute has passed is not processed by a later tick.
C5_ProcessedIffStringsMatchAndSelected ==
    tick.pc = "done" =>
        /\ \A i \in ReminderIds :
               (i \in Elems(tick.attempted)) <=> (tick.selectOk /\ Matches(i))
        /\ (\A i \in ReminderIds : ~Matches(i)) =>
               tick.pushes = <<>> /\ tick.expired = <<>>
        /\ \A i \in ReminderIds : \A m \in 0 .. MinuteOf(tick.now) - 1 :
               Denotes(i, m) => i \notin Elems(tick.attempted)

\* C5 witness: a tick has processed a matching row and left alone a row
\* that does not match and a canonical row whose minute passed with no tick.
C5_Witness ==
    /\ tick.pc = "done" /\ tick.selectOk
    /\ \E i \in ReminderIds, k \in ReminderIds :
          /\ i \in Elems(tick.attempted)
          /\ k \notin Elems(tick.attempted)
          /\ fireCount[k] = 0
          /\ \E m \in 0 .. MinuteOf(tick.now) - 1 :
                /\ reminders[k].date = strftime_date(DateTimeAt(60 * m))
                /\ reminders[k].time = strftime_time(DateTimeAt(60 * m))

\* C6: for every reminder selected as due in a tick (and whose processing
\* does not raise), an EXPIRED event with its id is broadcast on the
\* reminders registry under its pair_id, whether the push succeeded, failed
\* or had no recipient (no pair row, no device tokens).
C6_ExpiredForEveryDue ==
    tick.pc = "done" =>
        \A i \in Elems(tick.due) \ Elems(tick.failed) :
            \E n \in 1 .. Len(tick.expired) :
                tick.expired[n] =
                    [type |-> "EXPIRED", id |-> i, key |-> reminders[i].pair_id]

\* C7: within one tick every due reminder is attempted, in order, whatever
\* failed while processing the ones before it.
C7_EveryDueAttempted ==
    /\ tick.pc = "done" => tick.attempted = tick.due
    /\ tick.pc \in {"process", "broadcast", "done"} /\ tick.selectOk =>
           tick.due = DueReminders(reminders, tick.date, tick.time)

\* C7 witness: a tick with two due reminders has finished; processing the
\* first one failed (an exception, or no pair row) and the second one was
\* attempted.
C7_Witness ==
    /\ tick.pc = "done" /\ Len(tick.due) >= 2
    /\ tick.attempted = tick.due
    /\ \/ tick.due[1] \in Elems(tick.failed)
       \/ reminders[tick.due[1]].pair_id \notin DOMAIN pairs

\* C8 (as claimed): for each due reminder exactly one multicast push is
\* dispatched, to the stored device tokens of both linked parties, carrying
\* the reminder's id, title, date and time; none for a reminder not due.
C8_OnePushPerDue ==
    tick.pc = "done" /\ tick.selectOk =>
        \A i \in ReminderIds :
            IF Matches(i)
            THEN /\ Len(PushesFor(i)) = 1
                 /\ Elems(PushesFor(i)[1].tokens) = ExpectedTokens(reminders[i].pair_id)
                 /\ PushesFor(i)[1].data =
                        [type |-> "new_reminder", title |-> reminders[i].title,
                         date |-> reminders[i].date, time |-> reminders[i].time,
                         id |-> Str(reminders[i].id)]
            ELSE PushesFor(i) = <<>>

\* C8 (amended): exactly one multicast push is dispatched for each due
\* reminder whose pair row exists, whose parties have at least one stored
\* device token and whose lookups do not raise: its recipients are the
\* stored tokens of the pair's patient and caretaker and its data carries
\* the reminder's id, title, date and time.  No push is dispatched for any
\* other reminder (not due, no pair row, no stored token, failed lookup).
C8_OnePushPerDueWithRecipients ==
    tick.pc = "done" =>
        \A i \in ReminderIds :
            IF /\ tick.selectOk /\ Matches(i)
               /\ i \notin Elems(tick.failed)
               /\ ExpectedTokens(reminders[i].pair_id) # {}
            THEN /\ Len(PushesFor(i)) = 1
                 /\ Elems(PushesFor(i)[1].tokens) = ExpectedTokens(reminders[i].pair_id)
                 /\ PushesFor(i)[1].data =
                        [type |-> "new_reminder", title |-> reminders[i].title,
                         date |-> reminders[i].date, time |-> reminders[i].time,
                         id |-> Str(reminders[i].id)]
            ELSE PushesFor(i) = <<>>

\* C8 witness: in one tick a due reminder was pushed to the tokens of both
\* parties and another due reminder, whose pair has no stored token, was not.
C8_Witness ==
    /\ tick.pc = "done"
    /\ \E i \in Elems(tick.due), k \in Elems(tick.due) :
          /\ Len(PushesFor(i)) = 1
          /\ Cardinality(Elems(PushesFor(i)[1].tokens)) = 2
          /\ reminders[k].pair_id \in DOMAIN pairs
          /\ k \notin Elems(tick.failed)
          /\ PushesFor(k) = <<>>

(***************************************************************************)
(* Properties of the agent.                                                *)
(***************************************************************************)
\* C9: for every patient the stored history has at most HistoryCap entries
\* and is exactly the most recent (up to HistoryCap) entries appended for
\* that patient, in the order they were appended, whatever the interleaving
\* of HTTP and websocket turns.
C9_HistoryIsMostRecentTen ==
    \A u \in PatientIds :
        IF u \in DOMAIN agent_conversations
        THEN LET h == agent_conversations[u]
                 a == appended[u]
             IN  /\ Len(h) <= HistoryCap
                 /\ Len(h) = IF Len(a) < HistoryCap THEN Len(a) ELSE HistoryCap
                 /\ \A i \in 1 .. Len(h) : h[i] = a[Len(a) - Len(h) + i]
        ELSE appended[u] = <<>>

\* C9 witness: an HTTP turn and a websocket turn of one patient overlapped
\* (two user entries were appended in a row) and the appends overflowed the cap.
C9_Witness ==
    /\ Len(appended["u1"]) > HistoryCap
    /\ Len(agent_conversations["u1"]) = HistoryCap
    /\ \E i \in 1 .. Len(agent_conversations["u1"]) - 1 :
          /\ agent_conversations["u1"][i].role = "user"
          /\ agent_conversations["u1"][i + 1].role = "user"
          /\ agent_conversations["u1"][i].content # agent_conversations["u1"][i + 1].content

\* C10: whenever run_agent has invoked a tool, the pair_id the tool received
\* is the pair_id run_agent was called with, whatever the oracle proposed.
C10_ToolGetsCallersPairId ==
    lastRun.call.name # "none" =>
        /\ "pair_id" \in DOMAIN lastRun.call.args
        /\ lastRun.call.args["pair_id"] = lastRun.pair_id

\* C10 witness: a tool was invoked although the oracle's call carried the
\* pair_id of another pair.
C10_Witness ==
    /\ lastRun.call.name # "none"
    /\ "pair_id" \in DOMAIN lastRun.proposed[1].args
    /\ lastRun.proposed[1].args["pair_id"] # lastRun.pair_id
    /\ lastRun.call.args["pair_id"] = lastRun.pair_id

(***************************************************************************)
(* Properties of a turn of the agent.                                      *)
(***************************************************************************)
\* The step in which POST /chat of slot s returns after llm.ainvoke raised.
HttpTurnFailed(s) ==
    /\ http[s].pc = "await"
    /\ http'[s].pc = "idle"
    /\ lastRun'.raised

\* The step in which the websocket loop finishes a turn after llm.ainvoke raised.
WsTurnFailed ==
    /\ wsTurn.pc = "await"
    /\ wsTurn'.pc = "idle"
    /\ lastRun'.raised

\* What a failed turn of patient u with the given message leaves behind, as
\* claimed: the fallback sentence is returned, the step records nothing and
\* the stored history does not hold the turn's user message.
FailedTurnLeavesHistory(u, message) ==
    /\ lastRun'.response = <<"I'm having trouble connecting right now. Please try again.">>
    /\ appended'[u] = appended[u]
    /\ agent_conversations'[u] = agent_conversations[u]
    /\ \A i \in 1 .. Len(agent_conversations'[u]) :
          agent_conversations'[u][i] # Entry("user", message)

\* C11: when the oracle invocation fails, run_agent returns the fixed
\* fallback sentence and the patient's history after the turn is what it was
\* before it: neither the user message nor the fallback text is recorded.
C11_OracleFailureLeavesHistory ==
    [][/\ \A s \in 1 .. MaxHttp :
             HttpTurnFailed(s) =>
                 FailedTurnLeavesHistory(http[s].patient_id, http[s].message)
       /\ WsTurnFailed =>
              FailedTurnLeavesHistory(wsTurn.patient_id, wsTurn.message)]_vars

\* The step in which a turn of the agent ends (run_agent has returned).
TurnEnds ==
    \/ \E s \in 1 .. MaxHttp : http[s].pc = "await" /\ http'[s].pc = "idle"
    \/ wsTurn.pc = "await" /\ wsTurn'.pc = "idle"

\* The step in which run_agent has invoked the named tool.
ToolInvoked(name) == TurnEnds /\ lastRun'.call.name = name

\* The ids of the reminders of pair K whose title contains the fragment,
\* case-insensitively.
MatchingIds(rows, K, fragment) ==
    { rows[i].id : i \in { n \in 1 .. Len(rows) :
                              /\ rows[n].pair_id = K
                              /\ Contains(Lower(fragment), Lower(rows[n].title)) } }

\* The ids of the rows of a table.
IdsOf(rows) == { rows[i].id : i \in 1 .. Len(rows) }

\* What delete_reminder(K, fragment) does to the table and answers, as
\* claimed, when the query did not fail.
DeletesOnlyTheSingleMatch(K, fragment, matching, response) ==
    /\ Cardinality(matching) = 0 =>
          /\ reminders' = reminders
          /\ response = <<"I couldn't find a reminder matching '">> \o fragment \o <<"'.">>
    /\ Cardinality(matching) = 1 =>
          /\ IdsOf(reminders') = IdsOf(reminders) \ matching
          /\ response[1] = "I've deleted the reminder '"
    /\ Cardinality(matching) > 1 =>
          /\ reminders' = reminders
          /\ response[1] # "I've deleted the reminder '"
          /\ response[1] # "I couldn't find a reminder matching '"
    /\ \A i \in 1 .. Len(reminders) :
          reminders[i].pair_id # K =>
              \E j \in 1 .. Len(reminders') : reminders'[j] = reminders[i]

\* C12: delete_reminder(K, fragment) deletes a reminder only when exactly
\* one reminder of K has a title containing the fragment case-insensitively;
\* with no match it answers not-found, with more than one it asks to
\* disambiguate and deletes none; it never deletes a reminder of another key.
C12_DeleteOnlyWhenUnambiguous ==
    [][(ToolInvoked("delete_reminder")
          /\ lastRun'.response[1] # "Error deleting reminder: ") =>
          DeletesOnlyTheSingleMatch(
              lastRun'.call.args.pair_id, lastRun'.call.args.reminder_title,
              MatchingIds(reminders, lastRun'.call.args.pair_id,
                          lastRun'.call.args.reminder_title),
              lastRun'.response)]_vars

\* The answer of the oracle in the turn that ends, cut to its first tool call.
FirstCallOnly(run) ==
    [raises |-> run.raised, content |-> run.content,
     tool_calls |-> IF run.proposed = <<>> THEN <<>> ELSE <<run.proposed[1]>>]

\* The turn that ends did to the tables and answered what a turn with the
\* first tool call alone does.
AsFirstCallAlone(run) ==
    \E now \in AgentNows, dbOk \in BOOLEAN :
    \E out \in {run_agent(run.pair_id, FirstCallOnly(run), reminders,
                          reminder_seq, alerts, now, dbOk)} :
        /\ reminders' = out.reminders
        /\ reminder_seq' = out.reminder_seq
        /\ alerts' = out.alerts
        /\ run.response = out.response
        /\ run.call = out.call

\* Without a tool call no tool runs, the tables stay as they are and the
\* answer is the oracle's text (a fixed sentence stands in for an empty text).
NoToolWithoutCall(run) ==
    (run.proposed = <<>> /\ ~run.raised) =>
        /\ run.call = NoCall
        /\ UNCHANGED <<reminders, reminder_seq, alerts>>
        /\ run.response = IF run.content # <<>> THEN run.content
                          ELSE <<"I heard you, but I'm not sure what to do.">>

\* C16: a turn of run_agent ends in the step in which its one oracle
\* invocation returns, going nowhere else, and executes at most one tool: of
\* several tool calls in one response only the first is executed and the
\* others have no effect; without a tool call no tool runs and the oracle's
\* text is the answer.
C16_AtMostOneToolPerTurn ==
    [][/\ \A s \in 1 .. MaxHttp :
             (http[s].pc = "await" /\ http'[s] # http[s]) => http'[s].pc = "idle"
       /\ (wsTurn.pc = "await" /\ wsTurn' # wsTurn) => wsTurn'.pc = "idle"
       /\ TurnEnds =>
             /\ NoToolWithoutCall(lastRun')
             /\ lastRun'.call.name # "none" =>
                   /\ lastRun'.proposed # <<>>
                   /\ lastRun'.call.name = lastRun'.proposed[1].name
             /\ AsFirstCallAlone(lastRun')
       /\ ~TurnEnds => UNCHANGED <<lastRun, reminders, reminder_seq, alerts>>]_vars

\* C16 witness: the oracle asked for two tools, list_reminders and then
\* delete_reminder; the first was executed and the reminders are all there.
C16_Witness ==
    /\ Len(lastRun.proposed) = 2
    /\ lastRun.proposed[2].name = "delete_reminder"
    /\ lastRun.call.name = "list_reminders"
    /\ reminders = AgentReminders
    /\ lastRun.response[1] = "You have "

\* C20: after clear_agent_history(u) the history the next turn of u reads
\* through get_agent_history(u) is empty, and the histories of the other
\* patients are as they were.
C20_ResetEmptiesHistory ==
    [][\A u \in PatientIds :
          clears'[u] # clears[u] =>
              /\ get_agent_history(agent_conversations', u)[u] = <<>>
              /\ \A v \in PatientIds \ {u} :
                    Lookup(agent_conversations', v) = Lookup(agent_conversations, v)]_vars

(***************************************************************************)
(* Properties of the tools.                                                *)
(***************************************************************************)
EleventhJanuary == <<"1", "1", "th", " ", "January">>
FivePM == <<"0", "5", ":", "0", "0", " ", "PM">>
EleventhJan(Y) == <<"1", "1", " ", "Jan", " ">> \o Pad4(Y)

\* The row create_reminder has just stored is the one claimed and the reply
\* echoes it.
StoredAndEchoed(args, date, time) ==
    /\ reminders # <<>>
    /\ reminders[Len(reminders)] =
           [id |-> reminder_seq, pair_id |-> args.pair_id, title |-> args.title,
            date |-> date, time |-> time]
    /\ toolRun.reply =
           <<"Reminder created successfully! I'll remind you about '">>
               \o args.title \o <<"' on ">> \o date \o <<" at ">> \o time \o <<".">>

\* create_reminder(K, title, "11th January", time_str), when the commit does
\* not fail, stores "11 Jan Y" and "05:00 PM" with Y the current year.
CreateAccepts(time_str) ==
    (/\ toolRun.name = "create_reminder"
     /\ toolRun.args.date = EleventhJanuary
     /\ toolRun.args.time = time_str
     /\ toolRun.dbOk) =>
        StoredAndEchoed(toolRun.args, EleventhJan(DateTimeAt(toolRun.now).year), FivePM)

\* The 11 January 5 PM reminders of pair K that are not before the clock
\* reading now.
UpcomingEleventh(K, now) ==
    { i \in 1 .. Len(reminders) :
        /\ reminders[i].pair_id = K
        /\ reminders[i].title = TakeMedicine
        /\ reminders[i].time = FivePM
        /\ \E Y \in {2024, 2025} :
              /\ reminders[i].date = EleventhJan(Y)
              /\ DtKey([year |-> Y, month |-> 1, day |-> 11, hour |-> 17, minute |-> 0])
                    >= DtKey(DateTimeAt(now)) }

\* A list_reminders(K) that did not fail shows every such reminder.
ListShowsCreated ==
    (toolRun.name = "list_reminders" /\ toolRun.dbOk) =>
        \A i \in UpcomingEleventh(toolRun.args.pair_id, toolRun.now) :
            Contains(reminders[i].title \o <<" - ">> \o reminders[i].date
                        \o <<" at ">> \o reminders[i].time,
                     toolRun.reply)

\* C13 (as claimed): create_reminder(K, title, "11th January", "5 PM") with
\* current year Y stores date "11 Jan Y" and time "05:00 PM" and confirms
\* with those strings; a following list_reminders(K) shows the reminder
\* when its instant is not before now.
C13_HourOnlyTimeAccepted ==
    CreateAccepts(<<"5", " ", "PM">>) /\ ListShowsCreated

\* C13 (amended): the same for the time "5:00 PM".
C13_OrdinalDateWithoutYearAccepted ==
    CreateAccepts(<<"5", ":", "0", "0", " ", "PM">>) /\ ListShowsCreated

\* C13 witness: the reminder created from "11th January" and "5:00 PM" in
\* 2025 is stored and a following list_reminders shows it.
C13_Witness ==
    /\ toolRun.name = "list_reminders"
    /\ toolRun.dbOk
    /\ UpcomingEleventh(toolRun.args.pair_id, toolRun.now) # {}
    /\ \E i \in UpcomingEleventh(toolRun.args.pair_id, toolRun.now) :
          /\ reminders[i].id = reminder_seq
          /\ Contains(reminders[i].title \o <<" - ", "1", "1", " ", "Jan", " ",
                                               "2", "0", "2", "5", " at ">> \o FivePM,
                      toolRun.reply)

\* The rows of pair K whose instant parses and is not before now.
UpcomingOf(K, now) ==
    { i \in 1 .. Len(reminders) :
        reminders[i].pair_id = K /\ IsUpcoming(reminders[i], now) }

\* The instant of a stored reminder, as a key that orders instants.
InstantKey(r) == DtKey(strptime(r.date \o <<" ">> \o r.time, Formats[1]))

\* The ways of numbering the rows S in ascending order of their instants.
AscendingOrders(S) ==
    { f \in [1 .. Cardinality(S) -> S] :
        /\ \A i, j \in 1 .. Cardinality(S) : i # j => f[i] # f[j]
        /\ \A i, j \in 1 .. Cardinality(S) :
              i < j => InstantKey(reminders[f[i]]) <= InstantKey(reminders[f[j]]) }

\* C14: list_reminders(K) returns exactly the reminders of K whose parsed
\* instant is not before now, numbered in ascending order of that instant,
\* and a none-found message when K has no reminders or none is upcoming.
C14_ListIsUpcomingAscending ==
    (toolRun.name = "list_reminders" /\ toolRun.dbOk) =>
        IF RowsOfPair(reminders, toolRun.args.pair_id) = <<>>
        THEN toolRun.reply = <<"You don't have any reminders set right now.">>
        ELSE IF UpcomingOf(toolRun.args.pair_id, toolRun.now) = {}
        THEN toolRun.reply =
                <<"All your reminders have passed. You don't have any upcoming reminders.">>
        ELSE \E f \in AscendingOrders(UpcomingOf(toolRun.args.pair_id, toolRun.now)) :
                toolRun.reply =
                    ListUpcoming([i \in 1 .. Len(f) |-> reminders[f[i]]])

\* The step in which the named tool is called.
ToolCalled(name) == toolRun'.n # toolRun.n /\ toolRun'.name = name

Reassuring ==
    { <<"I've notified your caregiver. Help is on the way.">>,
      <<"I'm here with you. Let me help you feel safe.">> }

\* C15: send_emergency_alert(K, reason) never raises and always answers
\* with a reassuring sentence; when the commit succeeds exactly one alert
\* with pair_id K, the given reason and status "pending" is added, and when
\* it fails no alert is added.
C15_AlertAlwaysReassures ==
    [][ToolCalled("send_emergency_alert") =>
          /\ ~toolRun'.raised
          /\ toolRun'.reply \in Reassuring
          /\ IF toolRun'.dbOk
             THEN /\ Len(alerts') = Len(alerts) + 1
                  /\ SubSeq(alerts', 1, Len(alerts)) = alerts
                  /\ alerts'[Len(alerts')].pair_id = toolRun'.args.pair_id
                  /\ alerts'[Len(alerts')].reason = toolRun'.args.reason
                  /\ alerts'[Len(alerts')].status = "pending"
             ELSE alerts' = alerts]_vars

\* C15 witness: an alert was stored by one call and the commit of the next
\* call failed, which still answered with a reassuring sentence.
C15_Witness ==
    /\ toolRun.name = "send_emergency_alert"
    /\ ~toolRun.dbOk
    /\ toolRun.reply \in Reassuring
    /\ Len(alerts) = 1
    /\ alerts[1].status = "pending"

(***************************************************************************)
(* Properties of the location channel.                                     *)
(***************************************************************************)
\* The stored locations of pair k.
Stored(k) == { live_location[i] : i \in { n \in 1 .. Len(live_location) :
                                            live_location[n].pair_id = k } }

\* The replays a websocket has been sent.
Replays(ws) ==
    { i \in 1 .. Len(received[ws]) :
        "status" \in DOMAIN received[ws][i] /\ received[ws][i].status = "history" }

\* The step in which websocket ws joins a channel.
Joins(ws) == joined[ws] = <<>> /\ joined'[ws] # <<>>

\* A caretaker joins the location channel of a pair with a stored location.
JoinsToReplay(ws) ==
    /\ joined'[ws][1] = "location"
    /\ loc'[ws].role # "patient"
    /\ Stored(joined'[ws][2]) # {}

UpdateHandled(ws) == loc[ws].pc = "broadcast" /\ loc'[ws].pc = "receive"

\* The rows of pair k in a live_location table.
RowsOf(table, k) == { i \in 1 .. Len(table) : table[i].pair_id = k }

\* C18: every update received from a patient is broadcast to the other
\* connections of the pair_id and, when the commit does not fail, stored as
\* the location of that pair_id, so that the stored location is the last
\* update handled (which a caretaker joining afterwards is replayed); there
\* is at most one stored row per pair_id.
C18_UpdateRelayedAndStored ==
    /\ [][\A ws \in DOMAIN loc :
             UpdateHandled(ws) =>
                 /\ \A c \in (Elems(bcast.startList)
                                \cap Registered("location", loc[ws].pair_id)) \ {ws} :
                        \E i \in 1 .. Len(received'[c]) : received'[c][i] = loc[ws].data
                 /\ loc'[ws].persisted = "ok" =>
                        \A i \in RowsOf(live_location', loc[ws].pair_id) :
                            /\ live_location'[i].latitude = loc[ws].data.latitude
                            /\ live_location'[i].longitude = loc[ws].data.longitude
                 /\ loc'[ws].persisted = "ok" =>
                        RowsOf(live_location', loc[ws].pair_id) # {}]_vars
    /\ [](\A k \in Keys : Cardinality(RowsOf(live_location, k)) <= 1)


(***************************************************************************)
(* Properties of the plain chatbot API.                                    *)
(***************************************************************************)
\* C21: a history read that directly follows a clear of the same patient
\* returns no messages, whatever was said before, and a clear answers 200
\* whether or not the patient has a history.
C21_ClearThenReadIsEmpty ==
    \A i \in 1 .. Len(chatLog) :
        chatLog[i].op = "clear" =>
            /\ chatLog[i].status = 200
            /\ (i < Len(chatLog)
                  /\ chatLog[i + 1].op = "history"
                  /\ chatLog[i + 1].patient_id = chatLog[i].patient_id)
               => chatLog[i + 1].messages = <<>>

\* C21 witness: a patient who was answered cleared the history and then read
\* nothing, and a patient who never wrote cleared too.
C21_Witness ==
    /\ Len(chatLog) = 4
    /\ chatLog[1] = Served("clear", "u3", 200, <<>>)
    /\ chatLog[2] = Served("message", "u1", 200, <<>>)
    /\ chatLog[3] = Served("clear", "u1", 200, <<>>)
    /\ chatLog[4] = Served("history", "u1", 200, <<>>)
(***************************************************************************)
(* Transport faults.                                                       *)
(***************************************************************************)
\* C23: a transport fault never propagates.  The eviction of the connection
\* a broadcast is sending to cannot raise, the broadcast goes on to its next
\* send or returns, and when it returns no connection it evicted is still
\* registered under the key; a send_personal_message whose send failed
\* returns normally, leaves the registry as it was and leaves the handler
\* in its receive loop.
C23_TransportFaultsContained ==
    [][/\ bcast.pc = "sending" =>
             /\ ~disconnect(active_connections[bcast.mgr], bcast.cur, bcast.key).raised
             /\ bcast'.pc \in {"sending", "done"}
       /\ bcast'.pc = "done" =>
             \A c \in Elems(bcast'.evicted) :
                 c \notin Elems(Lookup(active_connections'[bcast'.mgr], bcast'.key))
       /\ agent_out' # agent_out =>
             \E e \in {agent_out'[Len(agent_out')]} :
                 /\ ~e.raised
                 /\ active_connections' = active_connections
                 /\ closed' = closed
                 /\ agent_ws'[e.to].pc = "receive"]_vars

\* A broadcast that evicted a connection has returned, and a unicast send
\* has failed before.
C23_Witness ==
    /\ bcast.pc = "done"
    /\ bcast.evicted # <<>>
    /\ \E i \in 1 .. Len(agent_out) : ~agent_out[i].ok
(***************************************************************************)
(* Answers of the agent and of its tools.                                  *)
(***************************************************************************)
\* Calls of the four tools with the arguments their schemas require.
CompleteCalls ==
    { Call("create_reminder", a) : a \in CreateArgs } \cup
    { Call("list_reminders", [pair_id |-> k]) : k \in AgentPairIds } \cup
    { Call("delete_reminder", [pair_id |-> k, reminder_title |-> <<"p", "i", "l", "l">>]) :
          k \in AgentPairIds } \cup
    { Call("send_emergency_alert", [pair_id |-> k, reason |-> <<"fall">>]) :
          k \in AgentPairIds }

\* C24: run_agent and every tool always answer with a non-empty text and
\* never raise: whatever the oracle did in a turn (failed, named an unknown
\* tool, left out arguments of a tool, said nothing) the turn's response is
\* not empty, and against every table the program reaches each tool, called
\* with complete arguments, returns a non-empty text without raising,
\* whether the database fails or not.
C24_AlwaysAnswersWithText ==
    /\ lastRun # NoRun => lastRun.response # <<>>
    /\ \A c \in CompleteCalls, now \in AgentNows, dbOk \in BOOLEAN :
          \E out \in {invoke(c.name, c.args, reminders, reminder_seq, alerts, now, dbOk)} :
              ~out.raised /\ out.result.reply # <<>>

\* The oracle named a tool the agent does not have, and the turn was answered.
C24_Witness ==
    /\ lastRun.proposed # <<>>
    /\ lastRun.proposed[1].name \notin DOMAIN TOOL_MAP
    /\ lastRun.call = NoCall
    /\ lastRun.response # <<>>
\* The date and time of the create_reminder call just made parse.
CreateParses ==
    parse_flexible_datetime(toolRun'.args.date, toolRun'.args.time,
                            DateTimeAt(toolRun'.now).year).ok

FormatHelp ==
    <<"Error: Invalid date format. Please use format like '25 Jan 2026' and '5:00 PM'.">>

\* C25: a create_reminder whose date and time no format parses returns the
\* format help and leaves the reminders table as it was; a call changes the
\* table only when they parse, and then by appending exactly one row.
C25_UnparsableCreatesNothing ==
    [][ToolCalled("create_reminder") =>
          /\ ~CreateParses => (toolRun'.reply = FormatHelp /\ reminders' = reminders)
          /\ reminders' # reminders =>
                /\ CreateParses
                /\ Len(reminders') = Len(reminders) + 1
                /\ SubSeq(reminders', 1, Len(reminders)) = reminders]_vars

\* create_reminder was called with a date no format parses, against a
\* table that holds reminders.
C25_Witness ==
    /\ toolRun.name = "create_reminder"
    /\ toolRun.args.date = <<"tomorrow">>
    /\ toolRun.reply = FormatHelp
    /\ reminders # <<>>
(***************************************************************************)
(* The agent websocket.                                                    *)
(***************************************************************************)
\* The message a frame yields: the "message" member of a JSON object, the
\* text itself of any other frame.
FrameMessage(frame) == IF frame.json = "object" THEN frame.message ELSE frame.data

\* The turn of the n-th frame is still running.
InFlight(n) ==
    \E ws \in Conns : agent_ws[ws].pc \in {"await", "send"} /\ agent_ws[ws].frame = n

\* Every response went to the connection its frame came from, carries that
\* connection's patient_id and pair_id and the text the turn put into the
\* history; the responses to a connection leave in the order of its
\* frames, one per frame; only the frames of turns still running are
\* unanswered.
ResponsesMatchFrames ==
    /\ \A i \in 1 .. Len(agent_out) :
          \E e \in {agent_out[i]} :
              /\ e.frame \in 1 .. Len(agent_in)
              /\ FrameMessage(agent_in[e.frame].frame) # <<>>
              /\ e.to = agent_in[e.frame].from
              /\ e.json.patient_id = agent_ws[e.to].patient_id
              /\ e.json.pair_id = agent_ws[e.to].pair_id
              /\ e.json.response # <<>>
              /\ \E j \in 1 .. Len(appended[e.json.patient_id]) :
                    appended[e.json.patient_id][j] = Entry("assistant", e.json.response)
    /\ \A i, j \in 1 .. Len(agent_out) :
          (i < j /\ agent_out[i].to = agent_out[j].to) =>
              agent_out[i].frame < agent_out[j].frame
    /\ \A n \in 1 .. Len(agent_in) :
          (FrameMessage(agent_in[n].frame) # <<>> /\ ~InFlight(n)) =>
              \E i \in 1 .. Len(agent_out) : agent_out[i].frame = n

\* A frame that yields no message has just been received.
EmptyFrameReceived ==
    /\ Len(agent_in') = Len(agent_in) + 1
    /\ FrameMessage(agent_in'[Len(agent_in')].frame) = <<>>

\* C26: on the agent websocket every frame that yields a non-empty message
\* gets exactly one response {response, patient_id, pair_id}, sent to the
\* connection the frame came from and to no other, in the order of the
\* frames; a frame that yields an empty message starts no turn, sends
\* nothing and leaves the histories as they were.
C26_OneResponsePerFrame ==
    [][/\ ResponsesMatchFrames'
       /\ EmptyFrameReceived =>
             UNCHANGED <<agent_ws, agent_out, agent_conversations, appended, lastRun,
                         reminders, alerts>>]_vars

\* One connection has had its two frames answered, one after the other,
\* while another connection of the same patient is registered.
C26_Witness ==
    /\ Len(agent_out) = 2
    /\ agent_out[1].to = agent_out[2].to
    /\ agent_out[1].frame = 1
    /\ agent_out[2].frame = 2
    /\ \E ws \in Conns \ {agent_out[1].to} :
          ws \in Elems(Lookup(active_connections["agent"], "u1"))
\* The messages of a turn after the system prompt, as the claim has them: at
\* most ContextWindow entries of the history before the turn, then the
\* user's message once.
HistoryThenMessage(before, message) ==
    SubSeq(before,
           IF Len(before) > ContextWindow THEN Len(before) - ContextWindow + 1 ELSE 1,
           Len(before))
        \o <<Entry("user", message)>>

\* C27: the messages handed to the oracle after the system prompt are the
\* last four entries (or fewer) of the user's history as it stood before the
\* turn, then the new user message exactly once, for a turn of POST /chat and
\* for a turn of the websocket.
C27_ContextIsHistoryThenMessage ==
    [][/\ \A s \in 1 .. MaxHttp :
             (http[s].pc = "idle" /\ http'[s].pc = "await") =>
                 http'[s].context =
                     HistoryThenMessage(Lookup(agent_conversations, http'[s].patient_id),
                                        http'[s].message)
       /\ (wsTurn.pc = "idle" /\ wsTurn'.pc = "await") =>
             wsTurn'.context =
                 HistoryThenMessage(Lookup(agent_conversations, wsTurn'.patient_id),
                                    wsTurn'.message)]_vars
\* The stored history of patient u ends with the turn's user message and
\* its answer, and the turn has appended those two entries and no other.
TurnIsLastTwo(u, message, userAdded) ==
    /\ Len(agent_conversations'[u]) >= 2
    /\ SubSeq(agent_conversations'[u], Len(agent_conversations'[u]) - 1,
              Len(agent_conversations'[u]))
           = <<Entry("user", message), Entry("assistant", lastRun'.response)>>
    /\ appended'[u] =
           appended[u] \o (IF userAdded THEN <<>> ELSE <<Entry("user", message)>>)
                       \o <<Entry("assistant", lastRun'.response)>>

\* C28: a turn appends the user message and then its answer, and at the
\* moment the turn completes these are the last two entries of the user's
\* history, also when another turn of the same user was running during the
\* oracle call.
C28_TurnIsLastTwoEntries ==
    [][/\ \A s \in 1 .. MaxHttp :
             (http[s].pc = "await" /\ http'[s].pc = "idle") =>
                 TurnIsLastTwo(http[s].patient_id, http[s].message, FALSE)
       /\ (wsTurn.pc = "await" /\ wsTurn'.pc = "idle") =>
             TurnIsLastTwo(wsTurn.patient_id, wsTurn.message, TRUE)]_vars
(***************************************************************************)
(* Reminder events.                                                        *)
(***************************************************************************)
IdsIn(rows) == { rows[i].id : i \in 1 .. Len(rows) }

\* The rows a step added, removed or rewrote.
ChangedRows ==
    { r \in Elems(reminders) \cup Elems(reminders') :
          r \notin Elems(reminders) \cap Elems(reminders') }

\* The event of the step, by what it did to the table.
ChangeType ==
    IF IdsIn(reminders') \ IdsIn(reminders) # {} THEN "ADD"
    ELSE IF IdsIn(reminders) \ IdsIn(reminders') # {} THEN "DELETE"
    ELSE "UPDATE"

\* C29: every create, update or delete of a reminder that succeeds, made by
\* the reminders API or by the agent's create_reminder and delete_reminder
\* tools, is followed by the broadcast of an ADD, UPDATE or DELETE event on
\* the reminders channel under the reminder's pair_id.
C29_ChangeIsBroadcast ==
    [][reminders' # reminders =>
          /\ bcast.pc = "idle"
          /\ bcast'.pc # "idle"
          /\ bcast'.mgr = "reminder"
          /\ \A r \in ChangedRows : r.pair_id = bcast'.key
          /\ crud'.event.type = ChangeType
          /\ \A r \in ChangedRows : r.id = crud'.event.id]_vars
(***************************************************************************)
(* Client disconnects.                                                     *)
(***************************************************************************)
\* The turn of websocket ws, whose client has closed during the oracle
\* call, goes on: the tool the oracle asked for has run against the tables
\* and the answer is appended to the history.
TurnOutlivesClient(ws) ==
    /\ agent_ws'[ws].pc = "send"
    /\ appended'[agent_ws[ws].patient_id] =
           Append(appended[agent_ws[ws].patient_id],
                  Entry("assistant", lastRun'.response))
    /\ agent_conversations'[agent_ws[ws].patient_id] # <<>>
    /\ (lastRun'.call.name = "delete_reminder"
           /\ lastRun'.response[1] = "I've deleted the reminder '") =>
              Len(reminders') = Len(reminders) - 1

\* The tick's broadcast in which no send failed has reached every
\* connection that was registered at its start and still is.
TickDeliversToRemaining ==
    (tick.pc = "broadcast" /\ bcast.pc = "done" /\ bcast.evicted = <<>>) =>
        \A c \in Elems(bcast.startList) \cap Registered(bcast.mgr, bcast.key) :
            TimesDelivered(c) >= 1

\* The tick that has ended has processed every due reminder.
TickProcessesAllDue == (tick.pc = "done" /\ tick.selectOk) => tick.attempted = tick.due

\* C30: a client's disconnect affects only later sends to it.  A turn of
\* the agent websocket whose client closed during the oracle call still
\* completes, tool side effect and history append included; and when a
\* client of the reminders channel disconnects during a scheduler tick, the
\* tick still processes every due reminder and its broadcasts reach the
\* connections that remain.
C30_DisconnectAffectsOnlyLaterSends ==
    [][/\ \A ws \in Conns :
             (agent_ws[ws].pc = "await" /\ agent_ws[ws].gone
                  /\ agent_ws'[ws] # agent_ws[ws]) => TurnOutlivesClient(ws)
       /\ TickDeliversToRemaining'
       /\ TickProcessesAllDue']_vars
(***************************************************************************)
(* Stored reminders.                                                       *)
(***************************************************************************)
\* The row's date and time parse, and are the rendering of the instant they
\* parse to in the format the scheduler compares with.
Canonical(r) ==
    \E dt \in {strptime(r.date \o <<" ">> \o r.time, Formats[1])} :
        /\ dt # NoDate
        /\ r.date = strftime_date(dt)
        /\ r.time = strftime_time(dt)

\* C31: every reminder row the system stores, through POST or PUT of the
\* reminders API or through the create_reminder tool, has the date and time
\* strings that "%d %b %Y" and "%I:%M %p" render for the instant they parse
\* to, so that the tick of that minute selects the row by string equality.
C31_StoredRowsAreCanonical ==
    [][\A r \in Elems(reminders') \ Elems(reminders) : Canonical(r)]_vars
(***************************************************************************)
(* Terminated handlers and the registries.                                 *)
(***************************************************************************)
\* The keys of manager m under whose list websocket ws occurs.
KeysOf(m, ws) ==
    {k \in DOMAIN active_connections[m] : ws \in Elems(active_connections[m][k])}

\* C32: once a socket handler (location, audio, reminders or agent chat)
\* has terminated, by a client disconnect or by an error of its receive
\* loop, its websocket is registered under no key of any manager.
C32_TerminatedHandlerLeavesNothing ==
    \A ws \in closed : \A m \in Managers : KeysOf(m, ws) = {}

\* C32 witness: a handler has terminated while a broadcast to its key was
\* suspended in a send, and another connection of the key stays registered.
C32_Witness ==
    \E ws \in closed, ws2 \in accepted \ closed :
        /\ joined[ws] = joined[ws2]
        /\ bcast.pc = "sending" /\ bcast.mgr = joined[ws][1]
        /\ bcast.key = joined[ws][2]
        /\ ws \in Elems(bcast.startList)
        /\ ws2 \in Registered(joined[ws2][1], joined[ws2][2])
\* How many times websocket ws occurs in list.
Occurrences(list, ws) == Cardinality({i \in 1 .. Len(list) : list[i] = ws})

\* C33: within one registry a connection is registered at most once and
\* under one key: no connection occurs twice in a key's list or in the lists
\* of two keys, and a broadcast sends it its payload at most once.
C33_RegisteredAtMostOnce ==
    \A m \in Managers, ws \in Conns :
        /\ Cardinality(KeysOf(m, ws)) <= 1
        /\ \A k \in KeysOf(m, ws) :
               /\ Occurrences(active_connections[m][k], ws) = 1
               /\ joined[ws] = <<m, k>>
        /\ Occurrences(bcast.delivered, ws) <= 1

\* C33 witness: two connections are registered under one key of a manager
\* and a third list of the same manager exists under the other key, after a
\* broadcast has delivered its payload.
C33_Witness ==
    \E m \in Managers, k \in Keys :
        /\ Cardinality(Registered(m, k)) = 2
        /\ bcast.pc = "done" /\ bcast.mgr = m /\ bcast.key = k
        /\ Len(bcast.delivered) >= 1
\* C34: a scheduler tick never creates, modifies or deletes a reminder row.
\* Every step of check_reminders_job, from its select to its return and
\* through the sends of its broadcasts, leaves the reminders table and its
\* id sequence as they were, whether or not a reminder was due and whether
\* or not its push or its broadcast succeeded.
C34_TickLeavesRemindersAlone ==
    [][(tick' # tick \/ tick.pc # "idle") =>
           /\ reminders' = reminders
           /\ reminder_seq' = reminder_seq]_vars

\* C34 witness: a tick has processed a due reminder whose push failed and
\* whose broadcast evicted a client, and the table still holds its rows.
C34_Witness ==
    /\ tick.pc = "done"
    /\ tick.attempted # <<>>
    /\ \E i \in 1 .. Len(tick.pushes) : ~tick.pushes[i].ok
    /\ \E ws \in Conns : ws \notin Registered("reminder", "p1")
    /\ \E i \in 1 .. Len(reminders) : reminders[i].id \in Elems(tick.attempted)
(***************************************************************************)
(* Isolation of the agent's sessions.                                      *)
(***************************************************************************)
\* The step belongs to a request of patient u: a turn of u starts or ends
\* (over HTTP or over the websocket of u), or u's history is reset.
StepFor(u) ==
    \/ \E s \in 1 .. MaxHttp :
          /\ http'[s] # http[s]
          /\ \/ http'[s].pc = "await" /\ http'[s].patient_id = u
             \/ http[s].pc = "await" /\ http[s].patient_id = u
    \/ wsTurn' # wsTurn /\ wsTurn.patient_id = u
    \/ clears'[u] # clears[u]

\* The entries turn t sends the oracle are entries of its own patient's
\* session convs, or the turn's own message.
FromOwnSession(t, convs) ==
    \A i \in 1 .. Len(t.context) :
        t.context[i] \in Elems(Lookup(convs, t.patient_id)) \cup {Entry("user", t.message)}

\* C35: agent sessions are isolated per patient.  A step of a turn, an
\* append with its trim, or a reset for one patient leaves the stored
\* history of every other patient as it was; the context a turn sends the
\* oracle is drawn from the session of the turn's own patient, and the
\* pair_id run_agent gets is the one of the turn's own request.
C35_SessionsIsolated ==
    [][/\ \A u \in PatientIds :
            \/ StepFor(u)
            \/ /\ Lookup(agent_conversations', u) = Lookup(agent_conversations, u)
               /\ Lookup(legacy_conversations', u) = Lookup(legacy_conversations, u)
       /\ \A s \in 1 .. MaxHttp :
            /\ (http[s].pc = "idle" /\ http'[s].pc = "await") =>
                   FromOwnSession(http'[s], agent_conversations)
            /\ (http[s].pc = "await" /\ http'[s].pc = "idle") =>
                   lastRun'.pair_id = http[s].pair_id
       /\ (wsTurn.pc = "idle" /\ wsTurn'.pc = "await") =>
              FromOwnSession(wsTurn', agent_conversations')
       /\ (wsTurn.pc = "await" /\ wsTurn'.pc = "idle") =>
              lastRun'.pair_id = wsTurn.pair_id]_vars

\* C35 witness: patient u3 has a stored history from a turn of its own, and
\* a later turn of u1 with another pair id has appended to the history of u1
\* and trimmed it.
C35_Witness ==
    /\ "u3" \in DOMAIN agent_conversations
    /\ Len(agent_conversations["u3"]) = 2
    /\ "u1" \in DOMAIN agent_conversations
    /\ Len(appended["u1"]) > HistoryCap
    /\ Len(agent_conversations["u1"]) = HistoryCap
    /\ agent_conversations["u1"][HistoryCap].content # agent_conversations["u3"][2].content
    /\ turnNo = 2
(***************************************************************************)
(* A tool the agent does not have.                                         *)
(***************************************************************************)
\* Answers of the oracle whose first tool call names no registered tool,
\* alone or followed by a call of a registered one, with or without text.
UnknownToolAnswers ==
    { Answer(<<Call("call_doctor", [pair_id |-> k])>> \o rest, text) :
          k \in AgentPairIds,
          rest \in {<<>>, <<DeleteCall>>},
          text \in {<<>>, <<"Calling.">>} }

UnknownToolSentence == <<"I tried to use a tool I don't have.">>

\* C36: when the oracle names a tool that is not one of the four registered
\* tools, run_agent executes no tool, changes no persisted reminder or
\* alert, and returns the sentence saying it tried to use a tool it does
\* not have: in every turn that ends so, and for every such answer against
\* the tables of every reachable state.
C36_UnknownToolDoesNothing ==
    [][/\ (/\ TurnEnds
           /\ lastRun'.proposed # <<>>
           /\ ~lastRun'.raised
           /\ lastRun'.proposed[1].name \notin DOMAIN TOOL_MAP) =>
             /\ lastRun'.call = NoCall
             /\ lastRun'.response = UnknownToolSentence
             /\ reminders' = reminders
             /\ reminder_seq' = reminder_seq
             /\ alerts' = alerts
       /\ \A a \in UnknownToolAnswers, k \in AgentPairIds, now \in AgentNows, dbOk \in BOOLEAN :
             run_agent(k, a, reminders', reminder_seq', alerts', now, dbOk) =
                 NoToolRun(UnknownToolSentence, reminders', reminder_seq', alerts')]_vars

\* C36 witness: a turn has ended in which the oracle named a tool the agent
\* does not have, with reminders stored that a tool could have changed.
C36_Witness ==
    /\ lastRun.proposed # <<>>
    /\ lastRun.proposed[1].name = "call_doctor"
    /\ lastRun.response = UnknownToolSentence
    /\ reminders # <<>>
\* C37: for an observer that joins the location channel while a location
\* of its pair is stored, the {status: "history"} replay is the first
\* message the connection receives: no update a patient's handler
\* broadcasts meanwhile is delivered to it before the replay.
C37_ReplayIsFirstMessage ==
    \A ws \in DOMAIN loc :
        (loc[ws].replay # <<>> /\ received[ws] # <<>>) =>
            received[ws][1] = loc[ws].replay

\* C37 witness: an observer has joined and its replay is being sent, and a
\* patient's handler has meanwhile received an update and called the send
\* of its broadcast to the observer.
C37_Witness ==
    \E ws \in DOMAIN loc, src \in DOMAIN loc :
        /\ loc[ws].pc = "replay"
        /\ received[ws] = <<>>
        /\ loc[src].pc = "broadcast"
        /\ bcast.pc = "sending" /\ bcast.sender = src /\ bcast.cur = ws
        /\ loc[src].data # <<>>
\* The step in which the handler of ws, joined in another role than
\* "patient", receives a frame: one that parses, or one that does not.
NonSourceFrame(ws) ==
    /\ loc[ws].role # "patient"
    /\ LocReceiveIgnored(ws) \/ LocReceiveMalformed(ws)

\* C38: a frame received on the location channel from a connection whose
\* role is not "patient" is neither broadcast nor persisted.  The step that
\* receives it starts no broadcast and leaves the stored locations and the
\* messages every connection has received as they were, and every
\* broadcast of the location channel is one a patient's handler made.
C38_NonSourceFrameHasNoEffect ==
    /\ [][\A ws \in DOMAIN loc :
             NonSourceFrame(ws) =>
                 /\ live_location' = live_location
                 /\ received' = received
                 /\ bcast'.pc = bcast.pc
                 /\ bcast'.sender = bcast.sender
                 /\ bcast'.delivered = bcast.delivered
                 /\ loc'[ws].pc \in {"receive", "closed"}]_vars
    /\ [](\A ws \in DOMAIN loc :
             /\ (bcast.pc # "idle" /\ bcast.mgr = "location" /\ bcast.sender = ws) =>
                    loc[ws].role = "patient"
             /\ loc[ws].role # "patient" => loc[ws].data = <<>> /\ loc[ws].persisted = "none")

\* C38 witness: after a patient's update was relayed to a caretaker and
\* stored, the caretaker's handler has received a frame, and the caretaker
\* has the one update and the table the one row of before.
C38_Witness ==
    \E src \in DOMAIN loc, ws \in DOMAIN loc :
        /\ locNo = 2 /\ closed = {} /\ bcast.pc = "idle"
        /\ loc[src].role = "patient" /\ loc[src].pc = "receive"
        /\ loc[src].data = Update(1) /\ loc[src].persisted = "ok"
        /\ loc[ws].role = "caretaker" /\ loc[ws].pc = "receive"
        /\ received[ws] = <<Update(1)>>
        /\ Len(live_location) = 1 /\ live_location[1].latitude = 1
====
